---- MODULE Spec2Model ----
(***************************************************************************)
(* Verification model of the meeting_ai backend job pipeline:              *)
(*   - the per-job artifact directory (<upload_root>/<job_id>/),           *)
(*   - the three worker tasks (ingest, transcribe, summarize) as           *)
(*     step-wise state machines over that directory,                       *)
(*   - the broker (RQ) queue with its failure hook,                        *)
(*   - the job status reader (routers/jobs.py).                            *)
(* One job is modelled; nothing in the code relates two job directories.   *)
(*                                                                         *)
(* Fault model.  External calls (ffmpeg, OpenAI, Redis) and artifact       *)
(* writes either succeed or raise.  Path.write_text is open(truncate)      *)
(* followed by write: the file is observable empty in between and stays    *)
(* so when the write raises.  The write of job_failed.json itself is taken *)
(* to be atomic and to succeed.                                            *)
(***************************************************************************)
EXTENDS Integers, Sequences, FiniteSets, TLC

VARIABLES
  dir,        \* the job directory: one field per file the code reads or writes
  queue,      \* work items waiting in the broker queue (function names)
  task,       \* the task the worker is executing, or "idle"
  pc,         \* position inside the executing task
  run,        \* number of task runs started so far (identifies a run's writes)
  settings,   \* [cache, envValid, apiKey]: settings._SETTINGS_CACHE and the environment
  enq,        \* whether the current run has put a successor on the queue
  delivered,  \* the work items the broker has handed to the worker at least once
  redelivered,\* number of re-deliveries so far
  lastRead,   \* the previous answer of the status reader
  rr          \* the record of the harnesses (specifications SpecRerun, SpecHook,
              \* SpecRetry, SpecBackoff, SpecPacing)

vars == <<dir, queue, task, pc, run, settings, enq, delivered, redelivered, lastRead, rr>>

(***************************************************************************)
(* Bounds                                                                  *)
(***************************************************************************)
MaxRedeliver == 1
MaxFailPoint == 9
MaxAttempts == 4
MaxChunks == 2
MaxTick == 1
MaxSegments == 2
MaxLangChunks == 3
MaxSections == 2
MaxActions == 2
MaxTranscript == 2
MaxHalfSeconds == 5
MaxChunkSeconds == 2
MaxStored == 2

(***************************************************************************)
(* File contents.  st is "absent", "partial" (exists, not parseable JSON)  *)
(* or "ok" (complete); by is the run that wrote a complete file.           *)
(***************************************************************************)
AbsentFile == [st |-> "absent", by |-> 0]
PartialFile == [st |-> "partial", by |-> 0]
CompleteFile(n) == [st |-> "ok", by |-> n]

\* job_failed.json: st is "absent", "ok" (an object with stage, message,
\* occurred_at), "bad" (not JSON), "nondict" (JSON, not an object) or
\* "nokeys" (an object lacking a required key); rq tells whether details
\* carry the broker job id and traceback.
NoMarker == [st |-> "absent", stage |-> "", rq |-> FALSE]
Marker(stage, rq) == [st |-> "ok", stage |-> stage, rq |-> rq]

JOB_STAGE_UPLOAD == "upload"
JOB_STAGE_CHUNKING == "chunking"
JOB_STAGE_TRANSCRIPTION == "transcription"
JOB_STAGE_SUMMARY == "summary"

EmptyDir ==
  [exists |-> FALSE, source |-> "none", chunks |-> "none",
   assets |-> AbsentFile, transcript |-> AbsentFile, summary |-> AbsentFile,
   actions |-> AbsentFile, quality |-> AbsentFile, failed |-> NoMarker]

(***************************************************************************)
(* job_state.py                                                            *)
(***************************************************************************)
\* mark_job_failed(job_directory, stage=..., error=...): creates the
\* directory when missing and overwrites job_failed.json.
mark_job_failed(d, stage, rq) ==
  [d EXCEPT !.exists = TRUE, !.failed = Marker(stage, rq)]

\* clear_job_failure: unlink job_failed.json when it exists.
clear_job_failure_noop(d) == d
clear_job_failure(d) ==
  IF d.failed.st # "absent" THEN [d EXCEPT !.failed = NoMarker] ELSE d

\* load_job_failure: "none" when the file is absent or holds JSON that is not
\* an object, "raise" when it is unparseable or lacks a required key.
load_job_failure(d) ==
  CASE d.failed.st = "absent" -> [kind |-> "none", stage |-> ""]
    [] d.failed.st = "bad" -> [kind |-> "raise", stage |-> ""]
    [] d.failed.st = "nondict" -> [kind |-> "none", stage |-> ""]
    [] d.failed.st = "nokeys" -> [kind |-> "raise", stage |-> ""]
    [] OTHER -> [kind |-> "record", stage |-> d.failed.stage]

(***************************************************************************)
(* routers/jobs.py: the status reader                                      *)
(***************************************************************************)
_STAGES == <<JOB_STAGE_UPLOAD, JOB_STAGE_CHUNKING, JOB_STAGE_TRANSCRIPTION, JOB_STAGE_SUMMARY>>
_STAGE_COUNT == Len(_STAGES)
_STAGE_INDEX(key) == CHOOSE i \in 1.._STAGE_COUNT : _STAGES[i] = key
KnownStage(key) == \E i \in 1.._STAGE_COUNT : _STAGES[i] = key

_has_file(f) == f.st # "absent"

\* glob over *.mov, *.mp4, *.mkv, *.webm in the job directory
_has_source_video(d) == d.source = "video"

\* list(job_directory.glob("audio_chunks/*.wav"))
ChunkGlob(d) == d.chunks = "wav"

_detect_stage_transcript_first(d) ==
  IF _has_file(d.transcript) THEN [index |-> 3, key |-> JOB_STAGE_SUMMARY]
  ELSE IF _has_file(d.summary) THEN [index |-> _STAGE_COUNT, key |-> JOB_STAGE_SUMMARY]
  ELSE IF ChunkGlob(d) THEN [index |-> 2, key |-> JOB_STAGE_TRANSCRIPTION]
  ELSE IF _has_source_video(d) THEN [index |-> 1, key |-> JOB_STAGE_CHUNKING]
  ELSE [index |-> 1, key |-> JOB_STAGE_UPLOAD]
_detect_stage(d) ==
  IF _has_file(d.summary) THEN [index |-> _STAGE_COUNT, key |-> JOB_STAGE_SUMMARY]
  ELSE IF _has_file(d.transcript) THEN [index |-> 3, key |-> JOB_STAGE_SUMMARY]
  ELSE IF ChunkGlob(d) THEN [index |-> 2, key |-> JOB_STAGE_TRANSCRIPTION]
  ELSE IF _has_source_video(d) THEN [index |-> 1, key |-> JOB_STAGE_CHUNKING]
  ELSE [index |-> 1, key |-> JOB_STAGE_UPLOAD]

_determine_status_three(stage_index) ==
  IF stage_index >= 3 THEN "completed"
  ELSE IF stage_index >= 2 THEN "processing"
  ELSE "pending"
_determine_status(stage_index) ==
  IF stage_index >= _STAGE_COUNT THEN "completed"
  ELSE IF stage_index >= 2 THEN "processing"
  ELSE "pending"

\* round(stage_index / _STAGE_COUNT, 3), in thousandths
progress(stage_index) == (2000 * stage_index + _STAGE_COUNT) \div (2 * _STAGE_COUNT)

\* the stage_index of a failed job: the index of the recorded stage, 1 when
\* the recorded stage is not a key of _STAGE_INDEX
FailureStageIndexLast(stage_key) ==
  IF KnownStage(stage_key) THEN _STAGE_INDEX(stage_key) ELSE _STAGE_COUNT
FailureStageIndex(stage_key) ==
  IF KnownStage(stage_key) THEN _STAGE_INDEX(stage_key) ELSE 1

\* A JSON list artifact is loaded with json.loads and raises on a file that
\* exists but does not parse.
LoadRaises(f) == f.st = "partial"

ReadError ==
  [status |-> "error", stage_index |-> 0, progress |-> 0, stage_key |-> "",
   can_delete |-> FALSE, failure |-> ""]

\* _load_job_summary: the answer of GET /api/jobs for this job, or ReadError
\* when an exception escapes (HTTP 500).
_load_job_summary_anyfile(d) ==
  IF LoadRaises(d.transcript) \/ LoadRaises(d.summary) \/ LoadRaises(d.actions)
       \/ LoadRaises(d.assets) \/ load_job_failure(d).kind = "raise"
  THEN ReadError
  ELSE IF d.failed.st # "absent"
  THEN [status |-> "failed",
        stage_index |-> FailureStageIndex(d.failed.stage),
        progress |-> progress(FailureStageIndex(d.failed.stage)),
        stage_key |-> d.failed.stage, can_delete |-> FALSE, failure |-> d.failed.stage]
  ELSE LET s == _detect_stage(d) IN
       [status |-> _determine_status(s.index), stage_index |-> s.index,
        progress |-> progress(s.index),
        stage_key |-> s.key, can_delete |-> s.index >= _STAGE_COUNT, failure |-> ""]
_load_job_summary(d) ==
  IF LoadRaises(d.transcript) \/ LoadRaises(d.summary) \/ LoadRaises(d.actions)
       \/ LoadRaises(d.assets) \/ load_job_failure(d).kind = "raise"
  THEN ReadError
  ELSE IF load_job_failure(d).kind = "record"
  THEN LET stage_key == load_job_failure(d).stage IN
       [status |-> "failed",
        stage_index |-> FailureStageIndex(stage_key),
        progress |-> progress(FailureStageIndex(stage_key)),
        stage_key |-> stage_key, can_delete |-> FALSE, failure |-> stage_key]
  ELSE LET s == _detect_stage(d) IN
       [status |-> _determine_status(s.index), stage_index |-> s.index,
        progress |-> progress(s.index),
        stage_key |-> s.key, can_delete |-> s.index >= _STAGE_COUNT, failure |-> ""]

\* list_jobs: the answer for the job and the job directory as the request
\* leaves it (every loader only reads; nothing is created or removed)
list_jobs_clearing(d) == [summary |-> _load_job_summary(d), dir |-> clear_job_failure(d)]
list_jobs(d) == [summary |-> _load_job_summary(d), dir |-> d]

(***************************************************************************)
(* settings.py                                                             *)
(***************************************************************************)
\* get_settings(): returns the cached Settings, building it from the
\* environment on first access; Settings.from_env raises ValueError on a
\* value that does not parse.
get_settings(s) ==
  [ok |-> s.cache \/ s.envValid, cache |-> s.cache \/ s.envValid]

(***************************************************************************)
(* The worker tasks.  Each operator gives the effect of one step of the    *)
(* task at position p under outcome o of the step's external call or       *)
(* write: the directory afterwards, the next position ("returned" and      *)
(* "raised" end the task), the settings cache and the item enqueued.       *)
(***************************************************************************)
Outcomes == {"ok", "fail"}

\* jobs.py: the work item each enqueue helper puts on the queue
enqueue_video_ingest_job == "ingest"
enqueue_transcription_job == "transcribe"
\* imported by tasks/transcribe.py from jobs.py; its definition is not part of
\* the sources at hand and is taken from the queue protocol of the specification
enqueue_summary_job == "summarize"

StepResult(d, p, c, e) == [dir |-> d, pc |-> p, cache |-> c, enq |-> e]

\* Path.write_text: open for writing truncates or creates the file ...
OpenForWrite(d, f) == [d EXCEPT ![f] = PartialFile]
\* ... and the write that follows completes it.
WriteComplete(d, f, n) == [d EXCEPT ![f] = CompleteFile(n)]

\* tasks/ingest.py: order of the steps of process_uploaded_video
IngestNextEnqueueFirst(p) ==
  CASE p = "clear" -> "settings"
    [] p = "settings" -> "extract"
    [] p = "extract" -> "split"
    [] p = "split" -> "enqueue"
    [] p = "enqueue" -> "open_assets"
    [] p = "open_assets" -> "write_assets"
    [] OTHER -> "returned"
IngestNext(p) ==
  CASE p = "clear" -> "settings"
    [] p = "settings" -> "extract"
    [] p = "extract" -> "split"
    [] p = "split" -> "open_assets"
    [] p = "open_assets" -> "write_assets"
    [] p = "write_assets" -> "enqueue"
    [] OTHER -> "returned"

\* the stage recorded when enqueue_transcription_job raises
IngestEnqueueFailureStageUpload == JOB_STAGE_UPLOAD
IngestEnqueueFailureStage == JOB_STAGE_CHUNKING

process_uploaded_video(d, p, o, s, n) ==
  CASE p = "clear" ->
         StepResult(clear_job_failure(d), IngestNext(p), s.cache, "none")
    [] p = "settings" ->
         IF d.source = "none"
         THEN StepResult(mark_job_failed(d, JOB_STAGE_UPLOAD, FALSE), "raised", s.cache, "none")
         ELSE IF get_settings(s).ok
         THEN StepResult(d, IngestNext(p), get_settings(s).cache, "none")
         ELSE StepResult(d, "raised", s.cache, "none")
    [] p = "extract" ->
         IF o = "ok"
         THEN StepResult(d, IngestNext(p), s.cache, "none")
         ELSE StepResult(mark_job_failed(d, JOB_STAGE_UPLOAD, FALSE), "raised", s.cache, "none")
    [] p = "split" ->
         IF o = "ok"
         THEN StepResult([d EXCEPT !.chunks = "mp3"], IngestNext(p), s.cache, "none")
         ELSE StepResult(mark_job_failed(d, JOB_STAGE_UPLOAD, FALSE), "raised", s.cache, "none")
    [] p = "open_assets" ->
         IF o = "ok"
         THEN StepResult(OpenForWrite(d, "assets"), IngestNext(p), s.cache, "none")
         ELSE StepResult(mark_job_failed(d, JOB_STAGE_UPLOAD, FALSE), "raised", s.cache, "none")
    [] p = "write_assets" ->
         IF o = "ok"
         THEN StepResult(WriteComplete(d, "assets", n), IngestNext(p), s.cache, "none")
         ELSE StepResult(mark_job_failed(d, JOB_STAGE_UPLOAD, FALSE), "raised", s.cache, "none")
    [] OTHER -> \* p = "enqueue"
         IF o = "ok"
         THEN StepResult(d, IngestNext(p), s.cache, enqueue_transcription_job)
         ELSE StepResult(mark_job_failed(d, IngestEnqueueFailureStage, FALSE), "raised", s.cache, "none")

\* tasks/transcribe.py: order of the steps of transcribe_audio_for_job
TranscribeNext(p) ==
  CASE p = "clear" -> "settings"
    [] p = "settings" -> "load"
    [] p = "load" -> "call"
    [] p = "call" -> "open_transcript"
    [] p = "open_transcript" -> "write_transcript"
    [] p = "write_transcript" -> "enqueue"
    [] OTHER -> "returned"

\* The max_concurrent_requests field of OpenAITranscriptionConfig.  The task
\* passes it (tasks/transcribe.py:42) and the settings carry it
\* (settings.py:30), but the class as given in transcription/openai.py:41-53
\* does not declare it; with that class the constructor call raises
\* TypeError and every Transcribe run fails.  The field is taken to exist,
\* as the task and the settings assume.
max_concurrent_requests == TRUE

\* RuntimeError without an API key, else the configuration object
_build_transcription_config(s) == s.apiKey /\ max_concurrent_requests

transcribe_audio_for_job(d, p, o, s, n) ==
  CASE p = "clear" ->
         IF ~d.exists
         THEN StepResult(mark_job_failed(d, JOB_STAGE_TRANSCRIPTION, FALSE), "raised", s.cache, "none")
         ELSE StepResult(clear_job_failure(d), TranscribeNext(p), s.cache, "none")
    [] p = "settings" ->
         IF get_settings(s).ok
         THEN StepResult(d, TranscribeNext(p), get_settings(s).cache, "none")
         ELSE StepResult(d, "raised", s.cache, "none")
    [] p = "load" ->
         \* _build_transcription_config, load_media_assets, _filter_audio_chunk_assets
         IF _build_transcription_config(s) /\ d.assets.st = "ok"
         THEN StepResult(d, TranscribeNext(p), s.cache, "none")
         ELSE StepResult(mark_job_failed(d, JOB_STAGE_TRANSCRIPTION, FALSE), "raised", s.cache, "none")
    [] p = "call" ->
         \* transcribe_audio_chunks (a missing chunk file fails), merge_chunk_transcriptions
         IF o = "ok" /\ d.chunks # "none"
         THEN StepResult(d, TranscribeNext(p), s.cache, "none")
         ELSE StepResult(mark_job_failed(d, JOB_STAGE_TRANSCRIPTION, FALSE), "raised", s.cache, "none")
    [] p = "open_transcript" ->
         IF o = "ok"
         THEN StepResult(OpenForWrite(d, "transcript"), TranscribeNext(p), s.cache, "none")
         ELSE StepResult(mark_job_failed(d, JOB_STAGE_TRANSCRIPTION, FALSE), "raised", s.cache, "none")
    [] p = "write_transcript" ->
         IF o = "ok"
         THEN StepResult(WriteComplete(d, "transcript", n), TranscribeNext(p), s.cache, "none")
         ELSE StepResult(mark_job_failed(d, JOB_STAGE_TRANSCRIPTION, FALSE), "raised", s.cache, "none")
    [] OTHER -> \* p = "enqueue"
         IF o = "ok"
         THEN StepResult(d, TranscribeNext(p), s.cache, enqueue_summary_job)
         ELSE StepResult(mark_job_failed(d, JOB_STAGE_TRANSCRIPTION, FALSE), "raised", s.cache, "none")

\* tasks/summarize.py: order of the steps of summarize_job
SummarizeNext(p) ==
  CASE p = "clear" -> "load"
    [] p = "load" -> "call"
    [] p = "call" -> "open_summary"
    [] p = "open_summary" -> "write_summary"
    [] p = "write_summary" -> "open_actions"
    [] p = "open_actions" -> "write_actions"
    [] p = "write_actions" -> "open_quality"
    [] p = "open_quality" -> "write_quality"
    [] OTHER -> "returned"

SummaryFileOfTranscript(p) ==
  CASE p \in {"open_summary", "write_summary"} -> "transcript"
    [] p \in {"open_actions", "write_actions"} -> "actions"
    [] OTHER -> "quality"
SummaryFileOf(p) ==
  CASE p \in {"open_summary", "write_summary"} -> "summary"
    [] p \in {"open_actions", "write_actions"} -> "actions"
    [] OTHER -> "quality"

summarize_job(d, p, o, s, n) ==
  CASE p = "clear" ->
         IF ~d.exists
         THEN StepResult(mark_job_failed(d, JOB_STAGE_SUMMARY, FALSE), "raised", s.cache, "none")
         ELSE StepResult(clear_job_failure(d), SummarizeNext(p), s.cache, "none")
    [] p = "load" ->
         \* load_transcript_segments, get_settings, _build_summary_config
         IF d.transcript.st # "ok"
         THEN StepResult(mark_job_failed(d, JOB_STAGE_SUMMARY, FALSE), "raised", s.cache, "none")
         ELSE IF ~get_settings(s).ok
         THEN StepResult(mark_job_failed(d, JOB_STAGE_SUMMARY, FALSE), "raised", s.cache, "none")
         ELSE IF ~s.apiKey
         THEN StepResult(mark_job_failed(d, JOB_STAGE_SUMMARY, FALSE), "raised", get_settings(s).cache, "none")
         ELSE StepResult(d, SummarizeNext(p), get_settings(s).cache, "none")
    [] p = "call" ->
         IF o = "ok"
         THEN StepResult(d, SummarizeNext(p), s.cache, "none")
         ELSE StepResult(mark_job_failed(d, JOB_STAGE_SUMMARY, FALSE), "raised", s.cache, "none")
    [] p \in {"open_summary", "open_actions", "open_quality"} ->
         IF o = "ok"
         THEN StepResult(OpenForWrite(d, SummaryFileOf(p)), SummarizeNext(p), s.cache, "none")
         ELSE StepResult(mark_job_failed(d, JOB_STAGE_SUMMARY, FALSE), "raised", s.cache, "none")
    [] OTHER -> \* a write_* position
         IF o = "ok"
         THEN StepResult(WriteComplete(d, SummaryFileOf(p), n), SummarizeNext(p), s.cache, "none")
         ELSE StepResult(mark_job_failed(d, JOB_STAGE_SUMMARY, FALSE), "raised", s.cache, "none")

\* The step of whichever task t is running.
TaskStep(t, d, p, o, s, n) ==
  CASE t = "ingest" -> process_uploaded_video(d, p, o, s, n)
    [] t = "transcribe" -> transcribe_audio_for_job(d, p, o, s, n)
    [] OTHER -> summarize_job(d, p, o, s, n)

(***************************************************************************)
(* worker.py: the broker failure hook                                      *)
(***************************************************************************)
\* A broker work item as the hook sees it: kwargs is "None", "empty" (a dict
\* without job_id) or "job_id" (a dict holding job_id); func_name is the dotted
\* path of the task function as the sequence of its components, <<>> when
\* the name is empty.
FuncName(t) ==
  CASE t = "ingest" -> <<"meetingai_backend", "tasks", "ingest", "process_uploaded_video">>
    [] t = "transcribe" -> <<"meetingai_backend", "tasks", "transcribe", "transcribe_audio_for_job">>
    [] OTHER -> <<"meetingai_backend", "tasks", "summarize", "summarize_job">>

\* the work item the enqueue helpers of jobs.py create for task t
JobOf(t) == [kwargs |-> "job_id", func_name |-> FuncName(t)]

\* _JOB_FUNC_TO_STAGE
_JOB_FUNC_TO_STAGE_swapped(func_name) ==
  CASE func_name = "process_uploaded_video" -> JOB_STAGE_UPLOAD
    [] func_name = "transcribe_audio_for_job" -> JOB_STAGE_SUMMARY
    [] func_name = "summarize_job" -> JOB_STAGE_TRANSCRIPTION
    [] func_name = "summarize_transcript_for_job" -> JOB_STAGE_SUMMARY
    [] OTHER -> JOB_STAGE_UPLOAD
_JOB_FUNC_TO_STAGE(func_name) ==
  CASE func_name = "process_uploaded_video" -> JOB_STAGE_UPLOAD
    [] func_name = "transcribe_audio_for_job" -> JOB_STAGE_TRANSCRIPTION
    [] func_name = "summarize_job" -> JOB_STAGE_SUMMARY
    [] func_name = "summarize_transcript_for_job" -> JOB_STAGE_SUMMARY
    [] OTHER -> JOB_STAGE_UPLOAD

\* job.func_name.rsplit(".", 1)[-1] if job.func_name else "", looked up with
\* JOB_STAGE_UPLOAD as the default
_infer_stage_from_job(job) ==
  LET func_name == IF job.func_name = <<>> THEN ""
                   ELSE job.func_name[Len(job.func_name)]
  IN _JOB_FUNC_TO_STAGE(func_name)

HookResult(d, c, raised) == [dir |-> d, cache |-> c, raised |-> raised]

\* _on_job_failure: the directory and settings cache after the hook ran for
\* the failed work item job, and whether the hook itself raised.
_on_job_failure_overwrite(d, s, job) ==
  IF job.kwargs = "None" THEN HookResult(d, s.cache, FALSE)
  ELSE IF job.kwargs = "empty" THEN HookResult(d, s.cache, TRUE)
  ELSE IF ~get_settings(s).ok THEN HookResult(d, s.cache, TRUE)
  ELSE IF ~d.exists THEN HookResult(d, get_settings(s).cache, FALSE)
  ELSE HookResult(mark_job_failed(d, _infer_stage_from_job(job), TRUE),
                  get_settings(s).cache, FALSE)
_on_job_failure(d, s, job) ==
  IF job.kwargs = "None" THEN HookResult(d, s.cache, FALSE)
  ELSE IF job.kwargs = "empty" THEN HookResult(d, s.cache, TRUE)       \* KeyError
  ELSE IF ~get_settings(s).ok THEN HookResult(d, s.cache, TRUE)         \* ValueError
  ELSE IF ~d.exists THEN HookResult(d, get_settings(s).cache, FALSE)
  ELSE IF load_job_failure(d).kind = "raise"
  THEN HookResult(d, get_settings(s).cache, TRUE)
  ELSE IF load_job_failure(d).kind = "record"
  THEN HookResult(d, get_settings(s).cache, FALSE)
  ELSE HookResult(mark_job_failed(d, _infer_stage_from_job(job), TRUE),
                  get_settings(s).cache, FALSE)

(***************************************************************************)
(* The pipeline as a state machine                                         *)
(***************************************************************************)
NoRead ==
  [status |-> "none", stage_index |-> 0, progress |-> 0, stage_key |-> "",
   can_delete |-> FALSE, failure |-> ""]
NoRerun == [phase |-> "off"]

Running == task # "idle" /\ pc \notin {"returned", "raised"}

Init ==
  /\ dir = EmptyDir
  /\ queue = <<>>
  /\ task = "idle"
  /\ pc = "none"
  /\ run = 0
  /\ settings \in [cache : BOOLEAN, envValid : BOOLEAN, apiKey : BOOLEAN]
  /\ enq = FALSE
  /\ delivered = {}
  /\ redelivered = 0
  /\ lastRead = NoRead
  /\ rr = NoRerun

\* routers/videos.py upload_video: create the job directory, store the
\* source file, enqueue the ingest task (which may raise: HTTP 500).
Upload ==
  /\ ~dir.exists
  /\ \E src \in {"video", "audio"}, o \in Outcomes :
       /\ dir' = [EmptyDir EXCEPT !.exists = TRUE, !.source = src]
       /\ queue' = IF o = "ok" THEN Append(queue, enqueue_video_ingest_job) ELSE queue
  /\ UNCHANGED <<task, pc, run, settings, enq, delivered, redelivered, lastRead, rr>>

\* The broker hands the next work item to the idle worker.
Deliver ==
  /\ task = "idle"
  /\ queue # <<>>
  /\ task' = Head(queue)
  /\ queue' = Tail(queue)
  /\ pc' = "clear"
  /\ run' = run + 1
  /\ enq' = FALSE
  /\ delivered' = delivered \cup {Head(queue)}
  /\ UNCHANGED <<dir, settings, redelivered, lastRead, rr>>

\* One step of the running task t.
RunStep(t) ==
  /\ task = t
  /\ Running
  /\ \E o \in Outcomes :
       LET r == TaskStep(t, dir, pc, o, settings, run) IN
         /\ dir' = r.dir
         /\ pc' = r.pc
         /\ settings' = [settings EXCEPT !.cache = r.cache]
         /\ queue' = IF r.enq # "none" THEN Append(queue, r.enq) ELSE queue
         /\ enq' = (enq \/ r.enq # "none")
  /\ UNCHANGED <<task, run, delivered, redelivered, lastRead, rr>>

IngestStep == RunStep("ingest")
TranscribeStep == RunStep("transcribe")
SummarizeStep == RunStep("summarize")

\* The task returned normally: the broker marks the work item finished.
Ack ==
  /\ task # "idle"
  /\ pc = "returned"
  /\ task' = "idle"
  /\ pc' = "none"
  /\ UNCHANGED <<dir, queue, run, settings, enq, delivered, redelivered, lastRead, rr>>

\* The task raised: the broker runs the failure hook of worker.py.
FailureHook ==
  /\ task # "idle"
  /\ pc = "raised"
  /\ LET r == _on_job_failure(dir, settings, JobOf(task)) IN
       /\ dir' = r.dir
       /\ settings' = [settings EXCEPT !.cache = r.cache]
  /\ task' = "idle"
  /\ pc' = "none"
  /\ UNCHANGED <<queue, run, enq, delivered, redelivered, lastRead, rr>>

\* At-least-once delivery: the broker (or an operator's re-drive) queues
\* again a work item it has delivered before.
Redeliver ==
  /\ redelivered < MaxRedeliver
  /\ \E s \in delivered : queue' = Append(queue, s)
  /\ redelivered' = redelivered + 1
  /\ UNCHANGED <<dir, task, pc, run, settings, enq, delivered, lastRead, rr>>

\* GET /api/jobs: the status reader answers for the job directory.
ReadJob ==
  /\ dir.exists
  /\ lastRead' = list_jobs(dir).summary
  /\ dir' = list_jobs(dir).dir
  /\ UNCHANGED <<queue, task, pc, run, settings, enq, delivered, redelivered, rr>>

Next ==
  \/ Upload
  \/ Deliver
  \/ IngestStep
  \/ TranscribeStep
  \/ SummarizeStep
  \/ Ack
  \/ FailureHook
  \/ Redeliver
  \/ ReadJob

Spec == Init /\ [][Next]_vars

(***************************************************************************)
(* The worker process started by run_worker: settings are loaded and       *)
(* validated (API key present) before the first work item is taken, and    *)
(* the broker delivers every queued item and lets every task step and      *)
(* every hook run.  Re-delivery and status reads are not forced.           *)
(***************************************************************************)
WorkerInit ==
  /\ Init
  /\ settings.cache
  /\ settings.apiKey

Fairness ==
  /\ WF_vars(Deliver)
  /\ WF_vars(IngestStep)
  /\ WF_vars(TranscribeStep)
  /\ WF_vars(SummarizeStep)
  /\ WF_vars(Ack)
  /\ WF_vars(FailureHook)

LiveSpec == WorkerInit /\ [][Next]_vars /\ Fairness

(***************************************************************************)
(* The status reader over arbitrary job directories                        *)
(***************************************************************************)
FileStates == {AbsentFile, PartialFile, CompleteFile(0)}

MarkerStates ==
  {NoMarker,
   [st |-> "bad", stage |-> "", rq |-> FALSE],
   [st |-> "nondict", stage |-> "", rq |-> FALSE],
   [st |-> "nokeys", stage |-> "", rq |-> FALSE]}
  \cup {Marker(k, FALSE) : k \in {JOB_STAGE_UPLOAD, JOB_STAGE_CHUNKING,
                                  JOB_STAGE_TRANSCRIPTION, JOB_STAGE_SUMMARY, "rq_worker"}}

AllDirs ==
  [exists : {TRUE}, source : {"none", "video", "audio"}, chunks : {"none", "mp3", "wav"},
   assets : FileStates, transcript : FileStates, summary : FileStates,
   actions : FileStates, quality : FileStates, failed : MarkerStates]

InitReader ==
  /\ dir \in AllDirs
  /\ queue = <<>>
  /\ task = "idle"
  /\ pc = "none"
  /\ run = 0
  /\ settings = [cache |-> TRUE, envValid |-> TRUE, apiKey |-> TRUE]
  /\ enq = FALSE
  /\ delivered = {}
  /\ redelivered = 0
  /\ lastRead = NoRead
  /\ rr = NoRerun

NextReader == ReadJob

SpecReader == InitReader /\ [][NextReader]_vars

(***************************************************************************)
(* Re-running a stage: the same stage with the same outcome is run on a    *)
(* directory with leftovers of earlier runs and on one that holds only the *)
(* stage's inputs, and the reader's answers are compared.                  *)
(***************************************************************************)
StageTasks == {"ingest", "transcribe", "summarize"}

\* fail at the k-th step of the run; 0 is a run in which no step fails
FailPoints == 0..MaxFailPoint

RECURSIVE RunTask(_, _, _, _, _, _, _)
RunTask(t, d, p, i, failAt, s, n) ==
  IF p \in {"returned", "raised"}
  THEN [dir |-> d, pc |-> p, settings |-> s]
  ELSE LET r == TaskStep(t, d, p, IF i = failAt THEN "fail" ELSE "ok", s, n) IN
       RunTask(t, r.dir, r.pc, i + 1, failAt, [s EXCEPT !.cache = r.cache], n)

\* the directory once the run of t is over and, when it raised, the broker
\* has run the failure hook
RunToEnd(t, d, failAt, s, n) ==
  LET e == RunTask(t, d, "clear", 1, failAt, s, n) IN
    IF e.pc = "raised" THEN _on_job_failure(e.dir, e.settings, JobOf(t)).dir ELSE e.dir

\* the directory holds what stage t reads
HoldsInputs(t, d) ==
  /\ d.source = "video"
  /\ t \in {"transcribe", "summarize"} => (d.chunks = "mp3" /\ d.assets.st = "ok")
  /\ t = "summarize" => d.transcript.st = "ok"

\* the directory reduced to the inputs of stage t
OnlyInputs(t, d) ==
  CASE t = "ingest" -> [EmptyDir EXCEPT !.exists = TRUE, !.source = d.source]
    [] t = "transcribe" ->
         [EmptyDir EXCEPT !.exists = TRUE, !.source = d.source, !.chunks = d.chunks,
                          !.assets = d.assets]
    [] OTHER ->
         [EmptyDir EXCEPT !.exists = TRUE, !.source = d.source, !.chunks = d.chunks,
                          !.assets = d.assets, !.transcript = d.transcript]

InitRerun ==
  /\ dir \in {d \in AllDirs : d.source = "video" /\ d.chunks # "wav"
                               /\ d.failed.st \in {"absent", "ok"}}
  /\ queue = <<>>
  /\ task = "idle"
  /\ pc = "none"
  /\ run = 0
  /\ settings = [cache |-> TRUE, envValid |-> TRUE, apiKey |-> TRUE]
  /\ enq = FALSE
  /\ delivered = {}
  /\ redelivered = 0
  /\ lastRead = NoRead
  /\ rr = [phase |-> "start"]

Rerun ==
  /\ rr.phase = "start"
  /\ \E t \in StageTasks, k \in FailPoints :
       /\ HoldsInputs(t, dir)
       /\ rr' = [phase |-> "done", stage |-> t, failAt |-> k,
                 dirty |-> _load_job_summary(RunToEnd(t, dir, k, settings, run + 1)),
                 clean |-> _load_job_summary(RunToEnd(t, OnlyInputs(t, dir), k, settings, run + 1))]
  /\ UNCHANGED <<dir, queue, task, pc, run, settings, enq, delivered, redelivered, lastRead>>

NextRerun == Rerun

SpecRerun == InitRerun /\ [][NextRerun]_vars

(***************************************************************************)
(* The failure hook over arbitrary work items: the hook runs once, in the  *)
(* worker process (settings cached by run_worker), for a work item and a   *)
(* job directory as the tasks can leave it, or for a missing directory.    *)
(***************************************************************************)
FuncNames ==
  {FuncName(t) : t \in StageTasks}
  \cup {<<"meetingai_backend", "tasks", "summarize", "summarize_transcript_for_job">>,
        <<"some", "module", "unknown_function">>, <<>>}

Jobs == [kwargs : {"None", "empty", "job_id"}, func_name : FuncNames]

\* the markers a task writes
TaskMarkers ==
  {Marker(k, FALSE) : k \in {JOB_STAGE_UPLOAD, JOB_STAGE_CHUNKING,
                              JOB_STAGE_TRANSCRIPTION, JOB_STAGE_SUMMARY}}

HookDirs ==
  {EmptyDir} \cup
  {d \in AllDirs : /\ d.failed \in TaskMarkers \cup {NoMarker}
                   /\ d.chunks # "wav"
                   /\ d.actions = AbsentFile /\ d.quality = AbsentFile}

InitHook ==
  /\ dir \in HookDirs
  /\ queue = <<>>
  /\ task = "idle"
  /\ pc = "none"
  /\ run = 0
  /\ settings \in [cache : {TRUE}, envValid : BOOLEAN, apiKey : {TRUE}]
  /\ enq = FALSE
  /\ delivered = {}
  /\ redelivered = 0
  /\ lastRead = NoRead
  /\ \E j \in Jobs : rr = [phase |-> "job", job |-> j]

HookRun ==
  /\ rr.phase = "job"
  /\ LET r == _on_job_failure(dir, settings, rr.job) IN
       /\ dir' = r.dir
       /\ settings' = [settings EXCEPT !.cache = r.cache]
       /\ rr' = [phase |-> "hooked", job |-> rr.job, before |-> dir, raised |-> r.raised]
  /\ UNCHANGED <<queue, task, pc, run, enq, delivered, redelivered, lastRead>>

NextHook == HookRun

SpecHook == InitHook /\ [][NextHook]_vars

(***************************************************************************)
(* transcription/openai.py and summarization/openai.py: the retry loops.   *)
(* One call of transcribe_audio_chunks (over rr.chunks chunk assets) or of *)
(* generate_meeting_summary is run attempt by attempt; the external        *)
(* service answers each request with a payload, an HTTP error status, a    *)
(* transport error or some other exception.  A status_code of 0 stands for *)
(* None.                                                                   *)
(***************************************************************************)
_RETRIABLE_STATUS_with_404 == {404, 408, 409, 429, 500, 502, 503, 504}
_RETRIABLE_STATUS == {408, 409, 429, 500, 502, 503, 504}

\* The Retry-After header of an error response: absent, numeric seconds, an
\* HTTP-date (value is the distance in seconds from now to the date), or text
\* that is neither.
NoRetryAfter == [kind |-> "absent", value |-> 0]
RetryAfterValues ==
  {NoRetryAfter, [kind |-> "garbage", value |-> 0]}
  \cup [kind : {"seconds"}, value : {-1, 2, 5}]
  \cup [kind : {"date"}, value : {-1, 5}]

\* what perform_request / caller may do: return a payload, return a payload
\* without any text, raise httpx.HTTPStatusError (with or without a response
\* attached), raise httpx.RequestError, raise anything else
Response(kind, code, has_response, ra) ==
  [kind |-> kind, code |-> code, has_response |-> has_response, retry_after |-> ra]
NoResponse == Response("none", 0, FALSE, NoRetryAfter)
Payload == Response("ok", 200, TRUE, NoRetryAfter)
Responses ==
  {Payload, Response("malformed", 200, TRUE, NoRetryAfter)}
  \cup {Response("status", c, TRUE, NoRetryAfter) :
          c \in _RETRIABLE_STATUS \cup {400, 401, 404, 501}}
  \cup {Response("status", 500, FALSE, NoRetryAfter),
        Response("transport", 0, FALSE, NoRetryAfter),
        Response("other", 0, FALSE, NoRetryAfter)}

\* a service that attaches Retry-After headers to its 429 answers
ResponsesWithHeaders ==
  {Payload, Response("status", 503, TRUE, NoRetryAfter),
   Response("transport", 0, FALSE, NoRetryAfter)}
  \cup {Response("status", 429, TRUE, ra) : ra \in RetryAfterValues}

\* a service that answers 429 with Retry-After: 2 until it succeeds
Responses429 ==
  {Payload, Response("status", 429, TRUE, [kind |-> "seconds", value |-> 2])}

\* a service that answers, is busy, or is unreachable
ResponsesBusy ==
  {Payload, Response("status", 429, TRUE, NoRetryAfter),
   Response("transport", 0, FALSE, NoRetryAfter)}

\* exc.response.status_code if exc.response is not None else None
StatusOfNone(resp) == 0
StatusOf(resp) == IF resp.has_response THEN resp.code ELSE 0

RECURSIVE Pow2(_)
Pow2(n) == IF n <= 0 THEN 1 ELSE 2 * Pow2(n - 1)

Max(a, b) == IF a >= b THEN a ELSE b
Min(a, b) == IF a <= b THEN a ELSE b

\* _parse_retry_after_seconds: the seconds to wait, -1 for None, -2 when the
\* parse raises.  The transcription client falls back to
\* email.utils.parsedate_to_datetime, which raises on text that is no date;
\* the summarization client knows numeric seconds only.
_parse_retry_after_seconds(client, ra) ==
  CASE ra.kind = "absent" -> -1
    [] ra.kind = "seconds" -> IF ra.value < 0 THEN -1 ELSE ra.value
    [] ra.kind = "date" ->
         IF client = "transcription"
         THEN (IF ra.value <= 0 THEN -1 ELSE ra.value)
         ELSE -1
    [] OTHER -> IF client = "transcription" THEN -2 ELSE -1

\* _select_retry_delay(attempt, config, response): -2 when it raises; a cap of
\* 0 stands for max_retry_backoff_seconds = None
_select_retry_delay_backoff_only(client, attempt, base, cap, resp) ==
  IF cap # 0 THEN Min(base * Pow2(attempt - 1), cap) ELSE base * Pow2(attempt - 1)
_select_retry_delay(client, attempt, base, cap, resp) ==
  LET base_delay == base * Pow2(attempt - 1)
      retry_after == IF resp.has_response
                     THEN _parse_retry_after_seconds(client, resp.retry_after)
                     ELSE -1
      delay == IF retry_after >= 0 THEN Max(base_delay, retry_after) ELSE base_delay
  IN IF retry_after = -2 THEN -2
     ELSE IF cap # 0 THEN Min(delay, cap)
     ELSE delay

\* _RateLimiter.from_config: the minimum interval in seconds; requests_per_minute
\* of 0 stands for None
from_config(requests_per_minute) ==
  IF requests_per_minute <= 0 THEN 0 ELSE 60 \div requests_per_minute

\* _RateLimiter.acquire: sleep until the interval has passed since the stamp
\* of the previous request, then stamp the clock (last_request_at of -1
\* stands for None)
acquire_no_sleep(st) ==
  IF st.interval <= 0 THEN st ELSE [st EXCEPT !.last_request_at = st.now]
acquire(st) ==
  IF st.interval <= 0 THEN st
  ELSE LET remaining == IF st.last_request_at = -1 THEN 0
                        ELSE st.interval - (st.now - st.last_request_at)
           current == IF remaining > 0 THEN st.now + remaining ELSE st.now
       IN [st EXCEPT !.now = current, !.last_request_at = current]

\* The chunk assets a call may be given: asset_id, window and whether the
\* chunk file exists when the call reaches it.
Asset(id, s, e) == [asset_id |-> id, start_ms |-> s, end_ms |-> e, exists |-> TRUE]
AssetPool == <<Asset("a", 0, 10), Asset("b", 10, 20), Asset("c", 20, 30), Asset("d", 30, 40)>>
AssetOrders ==
  {AssetPool, <<AssetPool[3], AssetPool[1], AssetPool[4], AssetPool[2]>>}

AssetLists(maxlen) ==
  {SubSeq(o, 1, n) : o \in AssetOrders, n \in 0..maxlen}

\* the list with the file of chunk k missing (k = 0: every file exists)
WithMissing(assets, k) ==
  [i \in 1..Len(assets) |-> IF i = k THEN [assets[i] EXCEPT !.exists = FALSE] ELSE assets[i]]

\* the transcript segments generate_meeting_summary is called with
SummaryInput == <<Asset("transcript", 0, 40)>>

Config(max_attempts, base, cap, rpm) ==
  [max_attempts |-> max_attempts, retry_backoff_seconds |-> base,
   max_retry_backoff_seconds |-> cap, requests_per_minute |-> rpm]

\* The state of one call: the configuration, the inputs, the service and the
\* request durations of this run, the loop variables (chunk, attempt), the
\* limiter (now, last_request_at), what the call has done (requests for the
\* current chunk, backoff sleeps, their delays for the current chunk, start
\* of the latest request and its distance to the one before, results) and
\* how it ended.
RetryStart(client, cfg, assets, service, ticks) ==
  [phase |-> "retry", client |-> client, max_attempts |-> cfg.max_attempts,
   base |-> cfg.retry_backoff_seconds, cap |-> cfg.max_retry_backoff_seconds,
   requests_per_minute |-> cfg.requests_per_minute,
   interval |-> IF client = "transcription" THEN from_config(cfg.requests_per_minute) ELSE 0,
   assets |-> assets, chunks |-> Len(assets), service |-> service, ticks |-> ticks,
   chunk |-> 1, attempt |-> 0, requests |-> 0, sleeps |-> 0, delays |-> <<>>,
   last |-> NoResponse, now |-> 0, last_request_at |-> -1, start |-> -1, gap |-> -1,
   results |-> <<>>, result |-> IF assets = <<>> THEN "done" ELSE "running",
   status_code |-> 0, error_type |-> "", error_asset |-> "", cause |-> NoResponse]

\* the error type of each client
ErrorOf(client) ==
  IF client = "transcription" THEN "TranscriptionError" ELSE "SummarizationError"

\* raise: the call ends with an exception of this type, carrying asset_id and
\* status_code when the type has them, raised from cause
Raise(st, type, asset_id, status, cause) ==
  [st EXCEPT !.result = "raised", !.error_type = type, !.error_asset = asset_id,
             !.status_code = status, !.cause = cause]

CurrentAsset(st) == st.assets[st.chunk]

\* the asset_id a client's error carries (SummarizationError has none)
ErrorAsset(st) == IF st.client = "transcription" THEN CurrentAsset(st).asset_id ELSE ""

\* the except clauses of one pass of the while loop: attempt was incremented
\* and the request answered resp, which is not a payload
HandleErrorNoCause(st, resp) ==
  Raise(st, ErrorOf(st.client), ErrorAsset(st), 0, NoResponse)
HandleError(st, resp) ==
  CASE resp.kind = "status" ->
         IF StatusOf(resp) \in _RETRIABLE_STATUS /\ st.attempt < st.max_attempts
         THEN LET delay == _select_retry_delay(st.client, st.attempt, st.base, st.cap, resp) IN
              IF delay = -2
              THEN Raise(st, "ValueError", "", 0, resp)
              ELSE [st EXCEPT !.sleeps = @ + 1, !.delays = Append(@, delay),
                              !.now = @ + delay]
         ELSE Raise(st, ErrorOf(st.client), ErrorAsset(st), StatusOf(resp), resp)
    [] resp.kind = "transport" ->
         IF st.attempt < st.max_attempts
         THEN LET delay == _select_retry_delay(st.client, st.attempt, st.base, st.cap, NoResponse) IN
              [st EXCEPT !.sleeps = @ + 1, !.delays = Append(@, delay), !.now = @ + delay]
         ELSE Raise(st, ErrorOf(st.client), ErrorAsset(st), 0, resp)
    [] OTHER -> Raise(st, ErrorOf(st.client), ErrorAsset(st), 0, resp)

\* if not asset.path.exists(): raise FileNotFoundError
MissingChunkFileIgnored(st) == FALSE
MissingChunkFile(st) == ~CurrentAsset(st).exists

\* the request of this pass: attempt is incremented, the request starts at
\* the current clock, takes dt and is answered resp
Request(st, resp, dt) ==
  [st EXCEPT !.attempt = @ + 1, !.requests = @ + 1, !.last = resp,
             !.start = st.now, !.gap = IF st.start = -1 THEN -1 ELSE st.now - st.start,
             !.now = st.now + dt]

\* the result appended for the current chunk
ChunkResultFirst(st) ==
  [asset_id |-> st.assets[1].asset_id, start_ms |-> st.assets[1].start_ms,
   end_ms |-> st.assets[1].end_ms]
ChunkResult(st) ==
  [asset_id |-> CurrentAsset(st).asset_id, start_ms |-> CurrentAsset(st).start_ms,
   end_ms |-> CurrentAsset(st).end_ms]

\* one pass of the while loop of transcribe_audio_chunks for the current
\* chunk, preceded by the file check when it is the chunk's first pass; a
\* payload ends the loop and the for loop moves to the next chunk
transcribe_audio_chunks(st, resp, dt) ==
  IF st.attempt = 0 /\ MissingChunkFile(st)
  THEN Raise(st, "FileNotFoundError", "", 0, NoResponse)
  ELSE IF ~(st.attempt < st.max_attempts)
  THEN Raise(st, ErrorOf(st.client), ErrorAsset(st), 0, st.last)
  ELSE LET a == Request(acquire(st), resp, dt) IN
       CASE resp.kind = "ok" ->
              LET r == [a EXCEPT !.results = Append(@, ChunkResult(st))] IN
              IF r.chunk = r.chunks
              THEN [r EXCEPT !.result = "done"]
              ELSE [r EXCEPT !.chunk = @ + 1, !.attempt = 0, !.requests = 0,
                             !.delays = <<>>]
         [] resp.kind = "malformed" ->
              \* _extract_transcript_text finds no text
              Raise(a, ErrorOf(st.client), ErrorAsset(st), 0, NoResponse)
         [] OTHER -> HandleError(a, resp)

\* one pass of the while loop of generate_meeting_summary
generate_meeting_summary(st, resp, dt) ==
  IF ~(st.attempt < st.max_attempts)
  THEN Raise(st, ErrorOf(st.client), "", 0, st.last)
  ELSE LET a == Request(st, resp, dt) IN
       CASE resp.kind = "ok" ->
              [a EXCEPT !.result = "done"]
         [] resp.kind = "malformed" ->
              \* the payload is not a mapping
              Raise(a, ErrorOf(st.client), "", 0, NoResponse)
         [] OTHER -> HandleError(a, resp)

\* the variables the retry specifications do not use
RetryIdle ==
  /\ dir = EmptyDir
  /\ queue = <<>>
  /\ task = "idle"
  /\ pc = "none"
  /\ run = 0
  /\ settings = [cache |-> TRUE, envValid |-> TRUE, apiKey |-> TRUE]
  /\ enq = FALSE
  /\ delivered = {}
  /\ redelivered = 0
  /\ lastRead = NoRead

\* Calls against any service without headers, over any chunk list with at
\* most one missing file; no limiter, instantaneous requests.
InitRetry ==
  /\ RetryIdle
  /\ \E m \in 1..MaxAttempts :
       \/ \E assets \in AssetLists(MaxChunks) : \E k \in 0..Len(assets) :
            rr = RetryStart("transcription", Config(m, 1, 0, 0), WithMissing(assets, k),
                            Responses, {0})
       \/ rr = RetryStart("summarization", Config(m, 1, 0, 0), SummaryInput, Responses, {0})

TranscriptionAttempt ==
  /\ rr.client = "transcription"
  /\ rr.result = "running"
  /\ \E resp \in rr.service, dt \in rr.ticks : rr' = transcribe_audio_chunks(rr, resp, dt)
  /\ UNCHANGED <<dir, queue, task, pc, run, settings, enq, delivered, redelivered, lastRead>>

SummaryAttempt ==
  /\ rr.client = "summarization"
  /\ rr.result = "running"
  /\ \E resp \in rr.service, dt \in rr.ticks : rr' = generate_meeting_summary(rr, resp, dt)
  /\ UNCHANGED <<dir, queue, task, pc, run, settings, enq, delivered, redelivered, lastRead>>

NextRetry ==
  \/ TranscriptionAttempt
  \/ SummaryAttempt

SpecRetry == InitRetry /\ [][NextRetry]_vars

\* Calls for one chunk against a service that sends Retry-After headers,
\* under every backoff configuration.
InitBackoff ==
  /\ RetryIdle
  /\ \E m \in 1..MaxAttempts, base \in {1, 2}, cap \in {0, 3, 10},
        service \in {ResponsesWithHeaders, Responses429},
        client \in {"transcription", "summarization"} :
       rr = RetryStart(client, Config(m, base, cap, 0),
                       IF client = "transcription" THEN SubSeq(AssetPool, 1, 1) ELSE SummaryInput,
                       service, {0})

SpecBackoff == InitBackoff /\ [][NextRetry]_vars

\* Calls with requests_per_minute configured, against a service that may be
\* busy or unreachable, with requests that take up to MaxTick seconds.
InitPacing ==
  /\ RetryIdle
  /\ \E m \in 1..MaxAttempts, cap \in {0, 2}, rpm \in {20, 30, 60} :
       \/ \E n \in 1..MaxChunks :
            rr = RetryStart("transcription", Config(m, 1, cap, rpm), SubSeq(AssetPool, 1, n),
                            ResponsesBusy, 0..MaxTick)
       \/ rr = RetryStart("summarization", Config(m, 1, cap, rpm), SummaryInput,
                          ResponsesBusy, 0..MaxTick)

SpecPacing == InitPacing /\ [][NextRetry]_vars

(***************************************************************************)
(* Merging chunk transcriptions into transcript segments                   *)
(* (transcription/segments.py).  Times of the model's response are given   *)
(* in half milliseconds, so that the rounding of _seconds_to_milliseconds  *)
(* is visible; "" stands for None or an empty string.                      *)
(***************************************************************************)
\* duration of the master recording the chunk windows are cut from
MasterDuration == 4

\* a timestamp of a raw segment: a number, NaN, or missing/unparseable
Time(kind, half) == [kind |-> kind, half |-> half]

Text(body, padded) == [body |-> body, padded |-> padded]

Raw(text_is_str, text, start, end, language) ==
  [text_is_str |-> text_is_str, text |-> text, start |-> start, end |-> end,
   language |-> language]

\* raw entries of a response: plain; padded text overhanging the chunk
\* window on both sides, with its own language; blank text; non-string
\* text; a span that rounds to nothing at the end of a 2 ms window
RawPool ==
  << Raw(TRUE, Text("x", FALSE), Time("num", 0), Time("num", 2), ""),
     Raw(TRUE, Text("y", TRUE), Time("num", -2), Time("num", 10), "en"),
     Raw(TRUE, Text("", TRUE), Time("nan", 0), Time("num", 2), ""),
     Raw(FALSE, Text("", FALSE), Time("num", 0), Time("none", 0), ""),
     Raw(TRUE, Text("x", FALSE), Time("num", 3), Time("num", 5), "") >>

RECURSIVE RawLists(_)
RawLists(n) ==
  IF n = 0 THEN {<<>>}
  ELSE RawLists(n - 1) \cup
       {Append(l, RawPool[i]) : l \in {x \in RawLists(n - 1) : Len(x) = n - 1},
                                i \in 1..Len(RawPool)}

\* the responses of a chunk: no "segments" list, or a list of raw entries
ChunkResponses(maxlen) ==
  {[has_segments |-> FALSE, segments |-> <<>>]} \cup
  {[has_segments |-> TRUE, segments |-> l] : l \in RawLists(maxlen)}

ChunkTranscriptionResult(id, s, e, lang) ==
  [asset_id |-> id, start_ms |-> s, end_ms |-> e, language |-> lang]

\* chunk windows inside [0, MasterDuration]; "a" and "c" start together;
\* "a" has no detected language, "c" and "b" have different ones
ChunkPool ==
  { ChunkTranscriptionResult("a", 0, 2, ""),
    ChunkTranscriptionResult("b", 2, 4, "ja"),
    ChunkTranscriptionResult("c", 0, 2, "fr") }

\* the lists of up to n distinct chunks, in any order
RECURSIVE ChunkLists(_)
ChunkLists(n) ==
  IF n = 0 THEN {<<>>}
  ELSE ChunkLists(n - 1) \cup
       {Append(l, c) : l \in {x \in ChunkLists(n - 1) : Len(x) = n - 1},
                       c \in ChunkPool}

Distinct(l) == \A i, j \in 1..Len(l) : l[i].asset_id = l[j].asset_id => i = j

\* the order of asset ids as Python compares strings
IdRank(id) == CASE id = "a" -> 1 [] id = "b" -> 2 [] id = "c" -> 3 [] OTHER -> 4

\* round(value * 1000) of a value given in half milliseconds: Python rounds
\* a half to the even neighbour
Round(half) ==
  LET q == half \div 2 IN
  IF half % 2 = 0 THEN q ELSE IF q % 2 = 0 THEN q ELSE q + 1

_parse_seconds(value) == value.kind # "none"

_seconds_to_milliseconds(value) == IF value.kind = "nan" THEN 0 ELSE Round(value.half)

strip(text) == [text EXCEPT !.padded = FALSE]

\* the candidates _iter_candidate_segments yields for a chunk, each with its
\* position in the response; raised when it ends with RuntimeError
RECURSIVE IterFrom(_, _)
IterFrom(chunk, i) ==
  LET segments == chunk.response.segments IN
  IF i > Len(segments) THEN <<>>
  ELSE LET raw == segments[i] IN
       IF ~raw.text_is_str \/ ~_parse_seconds(raw.start) \/ ~_parse_seconds(raw.end)
       THEN IterFrom(chunk, i + 1)
       ELSE << [text |-> raw.text,
                start_ms |-> chunk.start_ms + _seconds_to_milliseconds(raw.start),
                end_ms |-> chunk.start_ms + _seconds_to_milliseconds(raw.end),
                language |-> raw.language,
                pos |-> i] >> \o IterFrom(chunk, i + 1)

_iter_candidate_segments(chunk) ==
  LET yielded == IF chunk.response.has_segments THEN IterFrom(chunk, 1) ELSE <<>>
  IN [candidates |-> yielded, raised |-> yielded = <<>>]

ChunkKeyLeqStartOnly(x, y) == x.start_ms <= y.start_ms
ChunkKeyLeq(x, y) ==
  \/ x.start_ms < y.start_ms
  \/ x.start_ms = y.start_ms /\ IdRank(x.asset_id) <= IdRank(y.asset_id)

\* sorted(chunk_results, key = (start_ms, asset_id)); the sort is stable
RECURSIVE sorted(_)
sorted(l) ==
  IF l = <<>> THEN <<>>
  ELSE LET t == sorted(SubSeq(l, 1, Len(l) - 1))
           x == l[Len(l)]
           n == Cardinality({i \in 1..Len(t) : ChunkKeyLeq(t[i], x)})
       IN SubSeq(t, 1, n) \o <<x>> \o SubSeq(t, n + 1, Len(t))

SegmentWindowUnclamped(chunk, candidate) ==
  [start_ms |-> candidate.start_ms, end_ms |-> candidate.end_ms]
SegmentWindow(chunk, candidate) ==
  [start_ms |-> Max(chunk.start_ms, candidate.start_ms),
   end_ms |-> Min(chunk.end_ms, candidate.end_ms)]

Or(a, b) == IF a # "" THEN a ELSE b

\* the inner loop over the candidates of one chunk
RECURSIVE MergeCandidates(_, _, _, _, _)
MergeCandidates(chunk, candidates, i, merged, global_language) ==
  IF i > Len(candidates) THEN merged
  ELSE LET candidate == candidates[i]
           text == strip(candidate.text)
           w == SegmentWindow(chunk, candidate)
       IN IF text.body = "" \/ w.end_ms <= w.start_ms
          THEN MergeCandidates(chunk, candidates, i + 1, merged, global_language)
          ELSE MergeCandidates(chunk, candidates, i + 1,
                 Append(merged,
                        [order |-> Len(merged), start_ms |-> w.start_ms,
                         end_ms |-> w.end_ms, text |-> text,
                         language |-> Or(candidate.language,
                                         Or(chunk.language, global_language)),
                         source_asset_id |-> chunk.asset_id, pos |-> candidate.pos]),
                 global_language)

\* the loop over the ordered chunks
RECURSIVE MergeChunks(_, _, _, _)
MergeChunks(ordered_chunks, k, merged, global_language) ==
  IF k > Len(ordered_chunks)
  THEN [raised |-> FALSE, merged |-> merged, global_language |-> global_language]
  ELSE LET chunk == ordered_chunks[k]
           g == IF chunk.language # "" /\ global_language = ""
                THEN chunk.language ELSE global_language
           it == _iter_candidate_segments(chunk)
       IN IF it.raised
          THEN [raised |-> TRUE, merged |-> <<>>, global_language |-> g]
          ELSE MergeChunks(ordered_chunks, k + 1,
                           MergeCandidates(chunk, it.candidates, 1, merged, g), g)

\* the language of the first segment that has one, "" when none has
FirstLanguage(merged) ==
  LET withLang == {i \in 1..Len(merged) : merged[i].language # ""} IN
  IF withLang = {} THEN ""
  ELSE merged[CHOOSE i \in withLang : \A j \in withLang : i <= j].language

BackfillNone(merged, global_language) == merged
Backfill(merged, global_language) ==
  LET g == Or(global_language, FirstLanguage(merged)) IN
  [i \in 1..Len(merged) |->
     IF merged[i].language = "" THEN [merged[i] EXCEPT !.language = g] ELSE merged[i]]

merge_chunk_transcriptions(chunk_results) ==
  IF chunk_results = <<>> THEN [raised |-> FALSE, segments |-> <<>>]
  ELSE LET r == MergeChunks(sorted(chunk_results), 1, <<>>, "") IN
       IF r.raised THEN [raised |-> TRUE, segments |-> <<>>]
       ELSE [raised |-> FALSE, segments |-> Backfill(r.merged, r.global_language)]

\* Calls of merge_chunk_transcriptions on any list of up to MaxChunks
\* distinct chunks, each with any response of up to MaxSegments entries.
InitMerge ==
  /\ RetryIdle
  /\ \E l \in ChunkLists(MaxChunks) :
       /\ Distinct(l)
       /\ \E resp \in [1..Len(l) -> ChunkResponses(MaxSegments)] :
            rr = [phase |-> "merge", result |-> "called", segments |-> <<>>,
                  chunk_results |->
                    [i \in 1..Len(l) |->
                       [asset_id |-> l[i].asset_id, start_ms |-> l[i].start_ms,
                        end_ms |-> l[i].end_ms, language |-> l[i].language,
                        response |-> resp[i]]]]

MergeCall ==
  /\ rr.phase = "merge" /\ rr.result = "called"
  /\ LET r == merge_chunk_transcriptions(rr.chunk_results) IN
       rr' = [rr EXCEPT !.result = IF r.raised THEN "raised" ELSE "returned",
                        !.segments = r.segments]
  /\ UNCHANGED <<dir, queue, task, pc, run, settings, enq, delivered, redelivered, lastRead>>

NextMerge == MergeCall

SpecMerge == InitMerge /\ [][NextMerge]_vars

\* responses whose entries are all emitted: with and without a language
RECURSIVE LanguageLists(_)
LanguageLists(n) ==
  IF n = 0 THEN {<<>>}
  ELSE LanguageLists(n - 1) \cup
       {Append(l, RawPool[i]) : l \in {x \in LanguageLists(n - 1) : Len(x) = n - 1},
                                i \in 1..2}

\* Calls of merge_chunk_transcriptions on any list of up to MaxLangChunks
\* distinct chunks, each with one to MaxSegments entries that are emitted.
InitLanguage ==
  /\ RetryIdle
  /\ \E l \in ChunkLists(MaxLangChunks) :
       /\ Distinct(l)
       /\ \E resp \in [1..Len(l) -> {[has_segments |-> TRUE, segments |-> x] :
                                        x \in LanguageLists(MaxSegments) \ {<<>>}}] :
            rr = [phase |-> "merge", result |-> "called", segments |-> <<>>,
                  chunk_results |->
                    [i \in 1..Len(l) |->
                       [asset_id |-> l[i].asset_id, start_ms |-> l[i].start_ms,
                        end_ms |-> l[i].end_ms, language |-> l[i].language,
                        response |-> resp[i]]]]

SpecLanguage == InitLanguage /\ [][NextMerge]_vars

(***************************************************************************)
(* Parsing the summary response (summarization/openai.py:143-193).         *)
(* Times are milliseconds; every time of the inputs is a multiple of Tick  *)
(* once coerced.                                                           *)
(***************************************************************************)
Tick == 500

\* a time value of the response: an int, a float (given in half
\* milliseconds), a string of seconds such as "2.5s" (given in half
\* seconds), a string that is no number, or null
TimeValue(kind, v) == [kind |-> kind, v |-> v]

Some(ms) == [none |-> FALSE, ms |-> ms]
None == [none |-> TRUE, ms |-> 0]

_coerce_milliseconds(value) ==
  CASE value.kind = "int" -> Some(value.v)
    [] value.kind = "float" -> Some(value.v \div 2)
    [] value.kind = "seconds" -> Some((value.v * 1000) \div 2)
    [] OTHER -> None

\* values holds, in the order of the keys looked up, the values of the keys
\* the entry has
RECURSIVE _extract_time_value(_)
_extract_time_value(values) ==
  IF values = <<>> THEN None
  ELSE LET coerced == _coerce_milliseconds(Head(values)) IN
       IF ~coerced.none THEN coerced ELSE _extract_time_value(Tail(values))

Entry(is_mapping, text, start, end) ==
  [is_mapping |-> is_mapping, text |-> text, start |-> start, end |-> end]

\* summary sections of a response: inside the transcript; padded text from a
\* float start to a string end beyond the transcript; fully outside it;
\* blank text; start found under a second key, overlapping the first
SectionPool ==
  << Entry(TRUE, Text("a", FALSE), <<TimeValue("int", 0)>>, <<TimeValue("int", 1000)>>),
     Entry(TRUE, Text("b", TRUE), <<TimeValue("float", 2001)>>, <<TimeValue("seconds", 10)>>),
     Entry(TRUE, Text("c", FALSE), <<TimeValue("int", 4000)>>, <<TimeValue("int", 6000)>>),
     Entry(TRUE, Text("", TRUE), <<TimeValue("int", 0)>>, <<TimeValue("int", 1000)>>),
     Entry(TRUE, Text("d", FALSE), <<TimeValue("text", 0), TimeValue("int", 500)>>,
           <<TimeValue("int", 2000)>>) >>

\* action items of a response: both bounds, overhanging the transcript;
\* only a start, beyond the transcript; both bounds, end before start; no
\* description; no bounds; only an end, before the transcript
ActionPool ==
  << Entry(TRUE, Text("x", FALSE), <<TimeValue("int", -500)>>, <<TimeValue("int", 6000)>>),
     Entry(TRUE, Text("y", TRUE), <<TimeValue("int", 5000)>>, <<>>),
     Entry(TRUE, Text("z", FALSE), <<TimeValue("int", 2000)>>, <<TimeValue("int", 500)>>),
     Entry(FALSE, Text("", FALSE), <<>>, <<>>),
     Entry(TRUE, Text("w", FALSE), <<>>, <<TimeValue("none", 0)>>),
     Entry(TRUE, Text("v", FALSE), <<>>, <<TimeValue("int", -500)>>) >>

RECURSIVE EntryLists(_, _)
EntryLists(pool, n) ==
  IF n = 0 THEN {<<>>}
  ELSE EntryLists(pool, n - 1) \cup
       {Append(l, pool[i]) : l \in {x \in EntryLists(pool, n - 1) : Len(x) = n - 1},
                             i \in 1..Len(pool)}

TranscriptSegment(order, s, e) == [order |-> order, start_ms |-> s, end_ms |-> e]

TranscriptPool ==
  { TranscriptSegment(0, 500, 1000), TranscriptSegment(1, 1000, 3000),
    TranscriptSegment(2, 500, 1500) }

\* the non-empty lists of up to n distinct segments, in any order
RECURSIVE Transcripts(_)
Transcripts(n) ==
  IF n = 1 THEN {<<s>> : s \in TranscriptPool}
  ELSE Transcripts(n - 1) \cup
       {Append(l, s) : l \in {x \in Transcripts(n - 1) : Len(x) = n - 1},
                       s \in TranscriptPool}

DistinctOrders(l) == \A i, j \in 1..Len(l) : l[i].order = l[j].order => i = j

MinOf(S) == CHOOSE x \in S : \A y \in S : x <= y
MaxOf(S) == CHOOSE x \in S : \A y \in S : x >= y

transcript_start_ms(segments) == MinOf({segments[i].start_ms : i \in 1..Len(segments)})
transcript_end_ms(segments) == MaxOf({segments[i].end_ms : i \in 1..Len(segments)})

ClampSectionNone(start_ms, end_ms, ts, te) == [start |-> start_ms, end |-> end_ms]
ClampSection(start_ms, end_ms, ts, te) ==
  [start |-> Max(start_ms, ts), end |-> Min(end_ms, te)]

RECURSIVE ParseSections(_, _, _, _, _)
ParseSections(sections, index, parsed, ts, te) ==
  IF index > Len(sections) THEN parsed
  ELSE LET entry == sections[index]
           start_ms == _extract_time_value(entry.start)
           end_ms == _extract_time_value(entry.end)
           clamped_start == ClampSection(start_ms.ms, end_ms.ms, ts, te).start
           clamped_end == ClampSection(start_ms.ms, end_ms.ms, ts, te).end
       IN IF \/ ~entry.is_mapping
             \/ strip(entry.text).body = ""
             \/ start_ms.none \/ end_ms.none \/ end_ms.ms <= start_ms.ms
             \/ clamped_end <= clamped_start
          THEN ParseSections(sections, index + 1, parsed, ts, te)
          ELSE ParseSections(sections, index + 1,
                 Append(parsed, [order |-> Len(parsed),
                                 segment_start_ms |-> clamped_start,
                                 segment_end_ms |-> clamped_end,
                                 summary_text |-> strip(entry.text),
                                 pos |-> index]),
                 ts, te)

_parse_summary_sections(sections, ts, te) ==
  IF ~sections.is_sequence THEN <<>> ELSE ParseSections(sections.entries, 1, <<>>, ts, te)

ClampAction(segment_start, segment_end, ts, te) ==
  [start |-> IF segment_start.none THEN None ELSE Some(Max(segment_start.ms, ts)),
   end |-> IF segment_end.none THEN None ELSE Some(Min(segment_end.ms, te))]

RECURSIVE ParseActions(_, _, _, _, _, _)
ParseActions(items, index, parsed, starting_order, ts, te) ==
  IF index > Len(items) THEN parsed
  ELSE LET entry == items[index]
           c == ClampAction(_extract_time_value(entry.start),
                            _extract_time_value(entry.end), ts, te)
       IN IF \/ ~entry.is_mapping
             \/ strip(entry.text).body = ""
             \/ (~c.start.none /\ ~c.end.none /\ c.end.ms <= c.start.ms)
          THEN ParseActions(items, index + 1, parsed, starting_order, ts, te)
          ELSE ParseActions(items, index + 1,
                 Append(parsed, [order |-> starting_order + Len(parsed),
                                 description |-> strip(entry.text),
                                 segment_start_ms |-> c.start,
                                 segment_end_ms |-> c.end,
                                 pos |-> index]),
                 starting_order, ts, te)

_parse_action_items(items, starting_order, ts, te) ==
  IF ~items.is_sequence THEN <<>>
  ELSE ParseActions(items.entries, 1, <<>>, starting_order, ts, te)

_spans_overlap(start_a, end_a, start_b, end_b) == Max(start_a, start_b) < Min(end_a, end_b)

\* sorted(ranges, key = start); the sort is stable
RECURSIVE SortRanges(_)
SortRanges(l) ==
  IF l = <<>> THEN <<>>
  ELSE LET t == SortRanges(SubSeq(l, 1, Len(l) - 1))
           x == l[Len(l)]
           n == Cardinality({i \in 1..Len(t) : t[i][1] <= x[1]})
       IN SubSeq(t, 1, n) \o <<x>> \o SubSeq(t, n + 1, Len(t))

RECURSIVE MergeRanges(_, _, _)
MergeRanges(ranges, i, merged) ==
  IF i > Len(ranges) THEN merged
  ELSE LET r == ranges[i] IN
       IF merged = <<>> \/ r[1] > merged[Len(merged)][2]
       THEN MergeRanges(ranges, i + 1, Append(merged, r))
       ELSE MergeRanges(ranges, i + 1,
              [merged EXCEPT ![Len(merged)] = <<@[1], Max(@[2], r[2])>>])

RECURSIVE SumLengths(_)
SumLengths(merged) ==
  IF merged = <<>> THEN 0
  ELSE (Head(merged)[2] - Head(merged)[1]) + SumLengths(Tail(merged))

\* round(num / den, digits) in units of 10^-digits, a half going to the
\* even neighbour
RoundRatio(num, den, scale) ==
  LET q == (num * scale) \div den
      r == (num * scale) % den
  IN IF 2 * r < den THEN q ELSE IF 2 * r > den THEN q + 1
     ELSE IF q % 2 = 0 THEN q ELSE q + 1

\* covered is the summed length of the merged ranges, ratio the clamped
\* quotient covered / total_duration as numerator over total_duration
_calculate_coverage_ratio(ranges, total_duration) ==
  IF ranges = <<>> THEN [covered |-> 0, ratio |-> 0]
  ELSE LET covered == SumLengths(MergeRanges(SortRanges(ranges), 1, <<>>))
       IN [covered |-> covered, ratio |-> Min(total_duration, Max(0, covered))]

RECURSIVE CoverageRanges(_, _, _)
CoverageRanges(segments, summary_items, i) ==
  IF i > Len(summary_items) THEN <<>>
  ELSE LET item == summary_items[i]
           start == Max(item.segment_start_ms, segments[1].start_ms)
           end == Min(item.segment_end_ms, segments[Len(segments)].end_ms)
       IN (IF end > start THEN << <<start, end>> >> ELSE <<>>)
          \o CoverageRanges(segments, summary_items, i + 1)

_word_count(text) == IF text.body = "" THEN 0 ELSE 1

RECURSIVE SumWords(_)
SumWords(summary_items) ==
  IF summary_items = <<>> THEN 0
  ELSE _word_count(Head(summary_items).summary_text) + SumWords(Tail(summary_items))

\* ratios in thousandths, the word count in hundredths; covered and
\* total_duration are the two terms of coverage_ratio before the division
_evaluate_quality_metrics(segments, summary_items, action_items) ==
  LET total_duration == Max(transcript_end_ms(segments) - transcript_start_ms(segments), 1)
      coverage == _calculate_coverage_ratio(CoverageRanges(segments, summary_items, 1),
                                            total_duration)
      referenced_orders ==
        {segments[k].order : k \in {j \in 1..Len(segments) :
           \E i \in 1..Len(summary_items) :
             _spans_overlap(summary_items[i].segment_start_ms,
                            summary_items[i].segment_end_ms,
                            segments[j].start_ms, segments[j].end_ms)}}
  IN [covered |-> coverage.covered,
      total_duration |-> total_duration,
      coverage_ratio |-> RoundRatio(coverage.ratio, total_duration, 1000),
      referenced_segments_ratio |->
        RoundRatio(Cardinality(referenced_orders), Len(segments), 1000),
      average_summary_word_count |->
        IF summary_items = <<>> THEN 0
        ELSE RoundRatio(SumWords(summary_items), Len(summary_items), 100),
      action_item_count |-> Len(action_items)]

NoQuality ==
  [covered |-> 0, total_duration |-> 1, coverage_ratio |-> 0,
   referenced_segments_ratio |-> 0, average_summary_word_count |-> 0,
   action_item_count |-> 0]

\* generate_meeting_summary once the request has returned raw_payload
SummaryBundle(segments, raw_payload) ==
  IF ~raw_payload.is_mapping
  THEN [raised |-> TRUE, summary_items |-> <<>>, action_items |-> <<>>,
        quality |-> NoQuality]
  ELSE LET ts == transcript_start_ms(segments)
           te == transcript_end_ms(segments)
           summary_items == _parse_summary_sections(raw_payload.summary_sections, ts, te)
           action_items == _parse_action_items(raw_payload.action_items,
                                               Len(summary_items), ts, te)
       IN [raised |-> FALSE, summary_items |-> summary_items,
           action_items |-> action_items,
           quality |-> _evaluate_quality_metrics(segments, summary_items, action_items)]

Sequence(entries) == [is_sequence |-> TRUE, entries |-> entries]
NotASequence == [is_sequence |-> FALSE, entries |-> <<>>]

\* the payloads: not a mapping; or sections and action items, each a list of
\* entries or something that is no list
Payloads ==
  {[is_mapping |-> FALSE, summary_sections |-> NotASequence, action_items |-> NotASequence]}
  \cup
  {[is_mapping |-> TRUE, summary_sections |-> s, action_items |-> a] :
     s \in {NotASequence} \cup {Sequence(l) : l \in EntryLists(SectionPool, MaxSections)},
     a \in {NotASequence} \cup {Sequence(l) : l \in EntryLists(ActionPool, MaxActions)}}

\* Calls of generate_meeting_summary whose request returns any payload, on
\* any non-empty transcript of up to MaxTranscript segments in any order.
InitSummary ==
  /\ RetryIdle
  /\ \E segments \in Transcripts(MaxTranscript), raw_payload \in Payloads :
       /\ DistinctOrders(segments)
       /\ rr = [phase |-> "summary", result |-> "called", segments |-> segments,
                payload |-> raw_payload, summary_items |-> <<>>,
                action_items |-> <<>>, quality |-> NoQuality]

SummaryCall ==
  /\ rr.phase = "summary" /\ rr.result = "called"
  /\ LET b == SummaryBundle(rr.segments, rr.payload) IN
       rr' = [rr EXCEPT !.result = IF b.raised THEN "raised" ELSE "returned",
                        !.summary_items = b.summary_items,
                        !.action_items = b.action_items,
                        !.quality = b.quality]
  /\ UNCHANGED <<dir, queue, task, pc, run, settings, enq, delivered, redelivered, lastRead>>

NextSummary == SummaryCall

SpecSummary == InitSummary /\ [][NextSummary]_vars

(***************************************************************************)
(* Cutting the master audio into chunks (media/chunking.py) and building   *)
(* the manifest (tasks/ingest.py:71-95).  Durations and positions are in   *)
(* units of 1/Sub millisecond, so that rounding to milliseconds is seen.   *)
(***************************************************************************)
Sub == 4

\* the durations ffprobe may report: 0 and every half second up to
\* MaxHalfSeconds, each with any tail shorter than a millisecond
Durations == {h * 500 * Sub + j : h \in 0..MaxHalfSeconds, j \in 0..(Sub - 1)}

Seconds(n) == n * 1000 * Sub

\* int(round(value * 1000)) of a value given in units
Milliseconds(units) == RoundRatio(units, Sub, 1)

MediaAsset(id, kind, order, duration_ms, start_ms, end_ms, parent) ==
  [asset_id |-> id, kind |-> kind, order |-> order, duration_ms |-> duration_ms,
   start_ms |-> start_ms, end_ms |-> end_ms, parent_asset_id |-> parent]

\* MediaAsset.create_id for the chunk of the given index
ChunkId(index) == <<"chunk", index>>

ChunkingStart(total_duration, chunk_duration_seconds) ==
  [phase |-> "chunking", at |-> "probe", total_duration |-> total_duration,
   chunk_duration_seconds |-> chunk_duration_seconds, index |-> 0,
   position_seconds |-> 0, assets |-> <<>>, manifest |-> <<>>]

\* ffprobe: a duration that is not positive raises ValueError
_get_duration_seconds(st) ==
  IF st.total_duration <= 0 THEN [st EXCEPT !.at = "raised"]
  ELSE [st EXCEPT !.at = "loop"]

\* one iteration of the while loop; o is the outcome of ffmpeg
split_audio_into_chunks(st, o) ==
  LET remaining == st.total_duration - st.position_seconds
      chunk_length == Min(Seconds(st.chunk_duration_seconds), remaining)
      start_ms == Milliseconds(st.position_seconds)
      duration_ms == Milliseconds(chunk_length)
  IN IF o # "ok" THEN [st EXCEPT !.at = "raised"]
     ELSE [st EXCEPT
             !.assets = Append(@, MediaAsset(ChunkId(st.index), "audio_chunk", st.index,
                                             duration_ms, start_ms,
                                             start_ms + duration_ms, "")),
             !.position_seconds = @ + chunk_length,
             !.index = @ + 1]

RECURSIVE SumDurations(_)
SumDurations(assets) ==
  IF assets = <<>> THEN 0 ELSE Head(assets).duration_ms + SumDurations(Tail(assets))

_build_master_asset(chunk_assets) ==
  MediaAsset("master", "audio_master", -1, SumDurations(chunk_assets), 0,
             chunk_assets[Len(chunk_assets)].end_ms, "")

\* process_uploaded_video once the chunks are cut: the master asset, the
\* parent references and the manifest
BuildManifest(st) ==
  LET master_asset == _build_master_asset(st.assets) IN
  [st EXCEPT !.at = "written",
             !.manifest = <<master_asset>> \o
                [i \in 1..Len(st.assets) |->
                   [st.assets[i] EXCEPT !.parent_asset_id = master_asset.asset_id]]]

\* The chunking of a master of any duration in Durations with a chunk
\* length of 1..MaxChunkSeconds seconds.
InitChunking ==
  /\ RetryIdle
  /\ \E total_duration \in Durations, chunk_duration_seconds \in 1..MaxChunkSeconds :
       rr = ChunkingStart(total_duration, chunk_duration_seconds)

Probe ==
  /\ rr.phase = "chunking" /\ rr.at = "probe"
  /\ rr' = _get_duration_seconds(rr)
  /\ UNCHANGED <<dir, queue, task, pc, run, settings, enq, delivered, redelivered, lastRead>>

CutChunk ==
  /\ rr.phase = "chunking" /\ rr.at = "loop"
  /\ rr.position_seconds < rr.total_duration
  /\ \E o \in {"ok", "fail"} : rr' = split_audio_into_chunks(rr, o)
  /\ UNCHANGED <<dir, queue, task, pc, run, settings, enq, delivered, redelivered, lastRead>>

WriteManifest ==
  /\ rr.phase = "chunking" /\ rr.at = "loop"
  /\ ~(rr.position_seconds < rr.total_duration)
  /\ rr' = BuildManifest(rr)
  /\ UNCHANGED <<dir, queue, task, pc, run, settings, enq, delivered, redelivered, lastRead>>

NextChunking == Probe \/ CutChunk \/ WriteManifest

SpecChunking == InitChunking /\ [][NextChunking]_vars

(***************************************************************************)
(* The artifact store: transcription/segments.py, summarization/storage.py,*)
(* media/assets.py and job_state.py.  A field value is tagged with its     *)
(* type; json.dumps followed by json.loads returns the strings, integers,  *)
(* nulls, lists and objects it was given, so a file holds the list of      *)
(* objects that to_dict produced.                                          *)
(***************************************************************************)
JNull == [t |-> "null", v |-> 0]
JStr(s) == [t |-> "str", v |-> s]
JInt(n) == [t |-> "int", v |-> n]
JList(items) == [t |-> "list", v |-> items]
JDict(pairs) == [t |-> "dict", v |-> pairs]
PathOf(s) == [t |-> "path", v |-> s]
DateTime(s) == [t |-> "datetime", v |-> s]
Raised == [t |-> "raise", v |-> 0]

\* bool(value)
truthy(j) ==
  CASE j.t = "null" -> FALSE
    [] j.t = "str" -> j.v # ""
    [] j.t = "int" -> j.v # 0
    [] j.t = "list" -> j.v # <<>>
    [] j.t = "dict" -> j.v # {}
    [] OTHER -> TRUE

\* int(value)
int_(j) == IF j.t = "int" THEN j ELSE Raised

\* str(value)
str_(j) ==
  CASE j.t = "str" -> j
    [] j.t = "int" -> JStr(ToString(j.v))
    [] j.t = "null" -> JStr("None")
    [] OTHER -> j

\* str(payload[key]) if payload.get(key) else None
OptionalStr(j) == IF truthy(j) THEN str_(j) ELSE JNull

\* int(value) if value is not None else None
OptionalIntTruthy(j) == IF truthy(j) THEN int_(j) ELSE JNull
OptionalInt(j) == IF j.t # "null" THEN int_(j) ELSE JNull

\* list(payload.get(key) or []), dict(payload.get(key) or {})
ListOrEmpty(j) == IF truthy(j) THEN j ELSE JList(<<>>)
DictOrEmpty(j) == IF truthy(j) THEN j ELSE JDict({})

StoreKinds == {"transcript", "summary", "actions", "assets", "failure"}

\* to_dict of the class stored under each kind
to_dict(kind, item) ==
  IF kind = "assets" THEN [item EXCEPT !.path = JStr(item.path.v)] ELSE item

\* from_dict of the class stored under each kind
from_dict(kind, payload) ==
  CASE kind = "transcript" ->
         [payload EXCEPT !.order = int_(@), !.start_ms = int_(@), !.end_ms = int_(@),
                         !.extra = DictOrEmpty(@)]
    [] kind = "summary" ->
         [payload EXCEPT !.summary_id = str_(@), !.job_id = str_(@), !.order = int_(@),
                         !.segment_start_ms = int_(@), !.segment_end_ms = int_(@),
                         !.summary_text = str_(@), !.heading = OptionalStr(@),
                         !.priority = OptionalStr(@), !.highlights = ListOrEmpty(@)]
    [] kind = "actions" ->
         [payload EXCEPT !.action_id = str_(@), !.job_id = str_(@), !.order = int_(@),
                         !.description = str_(@), !.owner = OptionalStr(@),
                         !.due_date = OptionalStr(@),
                         !.segment_start_ms = OptionalInt(@),
                         !.segment_end_ms = OptionalInt(@),
                         !.priority = OptionalStr(@)]
    [] OTHER -> \* kind = "assets"
         [payload EXCEPT !.path = PathOf(@.v), !.extra = DictOrEmpty(@)]

\* JobFailureRecord.from_dict: details defaults to {} when the key is missing
\* and must be a dict when present
JobFailureRecord_from_dict(payload) ==
  [stage |-> str_(payload.stage), message |-> str_(payload.message),
   occurred_at |-> IF payload.occurred_at.t = "str"
                   THEN DateTime(payload.occurred_at.v) ELSE Raised,
   details |-> IF "details" \in DOMAIN payload
               THEN (IF payload.details.t = "dict" THEN payload.details ELSE Raised)
               ELSE JDict({})]

\* the segments merge_chunk_transcriptions emits
StoredSegments ==
  { [segment_id |-> JStr("s0"), job_id |-> JStr("j"), order |-> JInt(0),
     start_ms |-> JInt(0), end_ms |-> JInt(500), text |-> JStr("x"),
     language |-> JNull, speaker_label |-> JNull, source_asset_id |-> JStr("c0"),
     extra |-> JDict({})],
    [segment_id |-> JStr("s1"), job_id |-> JStr("j"), order |-> JInt(1),
     start_ms |-> JInt(500), end_ms |-> JInt(1000), text |-> JStr("y"),
     language |-> JStr("en"), speaker_label |-> JStr("A"), source_asset_id |-> JStr("c0"),
     extra |-> JDict({<<"avg_logprob", JInt(0)>>})],
    [segment_id |-> JStr("s2"), job_id |-> JStr("j"), order |-> JInt(2),
     start_ms |-> JInt(1000), end_ms |-> JInt(1500), text |-> JStr("z"),
     language |-> JStr(""), speaker_label |-> JInt(1), source_asset_id |-> JStr("c1"),
     extra |-> JDict({})] }

\* the items _parse_summary_sections emits: heading and priority are None
\* or a non-empty string
StoredSummaryItems ==
  { [summary_id |-> JStr("u0"), job_id |-> JStr("j"), order |-> JInt(0),
     segment_start_ms |-> JInt(0), segment_end_ms |-> JInt(500),
     summary_text |-> JStr("a"), heading |-> JNull, priority |-> JNull,
     highlights |-> JList(<<>>)],
    [summary_id |-> JStr("u1"), job_id |-> JStr("j"), order |-> JInt(1),
     segment_start_ms |-> JInt(500), segment_end_ms |-> JInt(1000),
     summary_text |-> JStr("b"), heading |-> JStr("Title"), priority |-> JStr("high"),
     highlights |-> JList(<<JStr("h"), JStr("1")>>)],
    [summary_id |-> JStr("u2"), job_id |-> JStr("j"), order |-> JInt(2),
     segment_start_ms |-> JInt(0), segment_end_ms |-> JInt(1000),
     summary_text |-> JStr("c"), heading |-> JStr("7"), priority |-> JNull,
     highlights |-> JList(<<JStr("h")>>)] }

\* the items _parse_action_items emits: a bound is None or an integer
\* (0 included), owner, due_date and priority None or a non-empty string
StoredActionItems ==
  { [action_id |-> JStr("a0"), job_id |-> JStr("j"), order |-> JInt(0),
     description |-> JStr("d"), owner |-> JNull, due_date |-> JNull,
     segment_start_ms |-> JNull, segment_end_ms |-> JNull, priority |-> JNull],
    [action_id |-> JStr("a1"), job_id |-> JStr("j"), order |-> JInt(1),
     description |-> JStr("e"), owner |-> JStr("Ann"), due_date |-> JStr("2025-01-01"),
     segment_start_ms |-> JInt(0), segment_end_ms |-> JInt(500), priority |-> JStr("low")],
    [action_id |-> JStr("a2"), job_id |-> JStr("j"), order |-> JInt(2),
     description |-> JStr("f"), owner |-> JStr("Bo"), due_date |-> JNull,
     segment_start_ms |-> JInt(500), segment_end_ms |-> JNull, priority |-> JNull] }

\* the manifest entries process_uploaded_video writes
StoredAssets ==
  { [asset_id |-> JStr("m"), job_id |-> JStr("j"), kind |-> JStr("audio_master"),
     path |-> PathOf("/jobs/j/audio.mp3"), order |-> JInt(-1), duration_ms |-> JInt(1000),
     start_ms |-> JInt(0), end_ms |-> JInt(1000), sample_rate |-> JInt(16000),
     channels |-> JInt(1), bit_depth |-> JNull, parent_asset_id |-> JNull,
     extra |-> JDict({<<"source_file_path", JStr("/jobs/j/in.mp4")>>})],
    [asset_id |-> JStr("c0"), job_id |-> JStr("j"), kind |-> JStr("audio_chunk"),
     path |-> PathOf("/jobs/j/audio_chunks/audio_chunk_0000.mp3"), order |-> JInt(0),
     duration_ms |-> JInt(500), start_ms |-> JInt(0), end_ms |-> JInt(500),
     sample_rate |-> JInt(16000), channels |-> JInt(1), bit_depth |-> JNull,
     parent_asset_id |-> JStr("m"), extra |-> JDict({})],
    [asset_id |-> JStr("c1"), job_id |-> JStr("j"), kind |-> JStr("audio_chunk"),
     path |-> PathOf("/jobs/j/audio_chunks/audio_chunk_0001.mp3"), order |-> JInt(1),
     duration_ms |-> JInt(500), start_ms |-> JInt(500), end_ms |-> JInt(1000),
     sample_rate |-> JInt(16000), channels |-> JInt(1), bit_depth |-> JNull,
     parent_asset_id |-> JStr("m"), extra |-> JDict({})] }

\* what job_failed.json may hold: the record mark_job_failed writes, with or
\* without details given, and a record of the format without details
MarkerPayloads ==
  { [stage |-> JStr("summary"), message |-> JStr("boom"),
     occurred_at |-> JStr("2025-01-01T00:00:00+00:00"), details |-> JDict({})],
    [stage |-> JStr("upload"), message |-> JStr("boom"),
     occurred_at |-> JStr("2025-01-01T00:00:00+00:00"),
     details |-> JDict({<<"rq_job_id", JStr("r")>>})],
    [stage |-> JStr("transcription"), message |-> JStr("boom"),
     occurred_at |-> JStr("2025-01-01T00:00:00+00:00")] }

StoredPool(kind) ==
  CASE kind = "transcript" -> StoredSegments
    [] kind = "summary" -> StoredSummaryItems
    [] kind = "actions" -> StoredActionItems
    [] OTHER -> StoredAssets

\* the lists of at most n objects of a kind
StoredLists(kind, n) == UNION {[1..k -> StoredPool(kind)] : k \in 0..n}

AbsentArtifact == [st |-> "absent", json |-> <<>>]
NotLoaded == [done |-> FALSE, absent |-> FALSE, value |-> <<>>]

\* dump_transcript_segments, dump_summary_items, dump_action_items,
\* dump_media_assets
dump(kind, items) ==
  [st |-> "ok", json |-> [i \in 1..Len(items) |-> to_dict(kind, items[i])]]

\* load_transcript_segments, load_summary_items, load_action_items,
\* load_media_assets: [] when the file is absent; every entry written by a
\* dump is an object
load(kind, file) ==
  IF file.st = "absent" THEN <<>>
  ELSE [i \in 1..Len(file.json) |-> from_dict(kind, file.json[i])]

\* load_job_failure: None (the empty tuple here) when the file is absent
load_failure_record(file) ==
  IF file.st = "absent" THEN <<>>
  ELSE <<JobFailureRecord_from_dict(file.json[1])>>

\* One artifact file of a job directory, the list to store in it, and the
\* last result of loading it.
InitStore ==
  /\ RetryIdle
  /\ \E kind \in StoreKinds :
       \E items \in IF kind = "failure" THEN {<<p>> : p \in MarkerPayloads}
                    ELSE StoredLists(kind, MaxStored) :
         rr = [phase |-> "store", kind |-> kind, items |-> items,
               file |-> AbsentArtifact, loaded |-> NotLoaded]

DumpArtifact ==
  /\ rr.phase = "store" /\ rr.kind # "failure"
  /\ rr' = [rr EXCEPT !.file = dump(rr.kind, rr.items)]
  /\ UNCHANGED <<dir, queue, task, pc, run, settings, enq, delivered, redelivered, lastRead>>

LoadArtifact ==
  /\ rr.phase = "store" /\ rr.kind # "failure"
  /\ rr' = [rr EXCEPT !.loaded = [done |-> TRUE, absent |-> rr.file.st = "absent",
                                  value |-> load(rr.kind, rr.file)]]
  /\ UNCHANGED <<dir, queue, task, pc, run, settings, enq, delivered, redelivered, lastRead>>

\* job_failed.json is written
WriteMarker ==
  /\ rr.phase = "store" /\ rr.kind = "failure"
  /\ rr' = [rr EXCEPT !.file = [st |-> "ok", json |-> rr.items]]
  /\ UNCHANGED <<dir, queue, task, pc, run, settings, enq, delivered, redelivered, lastRead>>

LoadMarker ==
  /\ rr.phase = "store" /\ rr.kind = "failure"
  /\ rr' = [rr EXCEPT !.loaded = [done |-> TRUE, absent |-> rr.file.st = "absent",
                                  value |-> load_failure_record(rr.file)]]
  /\ UNCHANGED <<dir, queue, task, pc, run, settings, enq, delivered, redelivered, lastRead>>

NextStore == DumpArtifact \/ LoadArtifact \/ WriteMarker \/ LoadMarker

SpecStore == InitStore /\ [][NextStore]_vars

(***************************************************************************)
(* The hand-over from Transcribe to Summarize: the merged segments are     *)
(* written to transcript_segments.json (tasks/transcribe.py:89-92), the    *)
(* summary task is enqueued (101-107), and that task loads the file and    *)
(* requires it to be non-empty (tasks/summarize.py:56-61).                 *)
(***************************************************************************)
\* Transcribe has received a result for each of its chunks, at least one
\* (tasks/transcribe.py:78-87).
InitHandoff ==
  /\ RetryIdle
  /\ \E l \in ChunkLists(MaxChunks) \ {<<>>} :
       /\ Distinct(l)
       /\ \E resp \in [1..Len(l) -> ChunkResponses(MaxSegments)] :
            rr = [phase |-> "merge", result |-> "called", segments |-> <<>>,
                  chunk_results |->
                    [i \in 1..Len(l) |->
                       [asset_id |-> l[i].asset_id, start_ms |-> l[i].start_ms,
                        end_ms |-> l[i].end_ms, language |-> l[i].language,
                        response |-> resp[i]]],
                  transcript |-> [st |-> "absent", segments |-> <<>>],
                  summarize |-> "none"]

\* dump_transcript_segments(job_directory, segments)
DumpTranscript ==
  /\ rr.phase = "merge" /\ rr.result = "returned"
  /\ rr' = [rr EXCEPT !.result = "dumped",
                      !.transcript = [st |-> "ok", segments |-> rr.segments]]
  /\ UNCHANGED <<dir, queue, task, pc, run, settings, enq, delivered, redelivered, lastRead>>

\* enqueue_summary_job(job_id=job_id); o is the outcome of the queue call
EnqueueSummary ==
  /\ rr.phase = "merge" /\ rr.result = "dumped"
  /\ \E o \in Outcomes :
       rr' = [rr EXCEPT !.result = IF o = "ok" THEN "enqueued" ELSE "raised",
                        !.summarize = IF o = "ok" THEN "queued" ELSE "none"]
  /\ UNCHANGED <<dir, queue, task, pc, run, settings, enq, delivered, redelivered, lastRead>>

\* summarize_job: load_transcript_segments, then RuntimeError when the list
\* is empty
SummarizeLoad ==
  /\ rr.phase = "merge" /\ rr.summarize = "queued"
  /\ rr' = [rr EXCEPT !.summarize = IF rr.transcript.segments = <<>>
                                    THEN "raised" ELSE "loaded"]
  /\ UNCHANGED <<dir, queue, task, pc, run, settings, enq, delivered, redelivered, lastRead>>

NextHandoff == MergeCall \/ DumpTranscript \/ EnqueueSummary \/ SummarizeLoad

SpecHandoff == InitHandoff /\ [][NextHandoff]_vars

(***************************************************************************)
(* Properties                                                              *)
(***************************************************************************)
\* the failure stages a task may record
StageKeysOf(t) ==
  CASE t = "ingest" -> {JOB_STAGE_UPLOAD, JOB_STAGE_CHUNKING}
    [] t = "transcribe" -> {JOB_STAGE_TRANSCRIPTION}
    [] OTHER -> {JOB_STAGE_SUMMARY}

\* the success artifact of a task
ArtifactOf(t, d) ==
  CASE t = "ingest" -> d.assets
    [] t = "transcribe" -> d.transcript
    [] OTHER -> d.summary

\* the artifact files of a directory
Artifacts(d) == <<d.assets, d.transcript, d.summary, d.actions, d.quality>>

\* C1: whenever a stage task ends by raising, at whatever step, job_failed.json
\* exists when control is back at the broker (before the failure hook runs)
\* and its stage is one of the task's keys.
C1_RaiseLeavesMarker ==
  (task # "idle" /\ pc = "raised") =>
     (dir.failed.st = "ok" /\ dir.failed.stage \in StageKeysOf(task))

\* C2: a task enqueues its successor only in a step taken after its own
\* artifact has been written completely by this run, and a run that raises
\* without having written its artifact has enqueued nothing.
C2_EnqueueAfterWrite ==
  [][ /\ (~enq /\ enq' /\ task \in {"ingest", "transcribe"})
           => ArtifactOf(task, dir) = CompleteFile(run)
      /\ (task' \in {"ingest", "transcribe"} /\ pc' = "raised"
            /\ ArtifactOf(task', dir') # CompleteFile(run'))
           => ~enq' ]_vars

\* C2 witness: Transcribe has written transcript_segments.json in this run
\* and has enqueued Summarize.
C2_Witness ==
  task = "transcribe" /\ enq /\ dir.transcript = CompleteFile(run) /\ pc = "returned"

\* C3: when the enqueue step raises, the artifact written before it is left
\* as it is and the marker written names "chunking" for Ingest and
\* "transcription" for Transcribe.
C3_EnqueueFailureMarksStage ==
  [][ (task \in {"ingest", "transcribe"} /\ pc = "enqueue" /\ pc' = "raised")
        => /\ ArtifactOf(task, dir') = ArtifactOf(task, dir)
           /\ ArtifactOf(task, dir) = CompleteFile(run)
           /\ dir'.failed.st = "ok"
           /\ dir'.failed.stage =
                (IF task = "ingest" THEN JOB_STAGE_CHUNKING ELSE JOB_STAGE_TRANSCRIPTION) ]_vars

\* C3 witness: Ingest raised from its enqueue step with the manifest in place.
C3_Witness ==
  /\ task = "ingest" /\ pc = "raised" /\ dir.assets = CompleteFile(run)
  /\ dir.failed.stage = JOB_STAGE_CHUNKING

\* C4 (as stated): a stage's complete success artifact and a failure marker
\* naming that stage are never both present.
C4_ArtifactExcludesMarker ==
  /\ ~(dir.assets.st = "ok" /\ dir.failed.st = "ok" /\ dir.failed.stage = JOB_STAGE_UPLOAD)
  /\ ~(dir.transcript.st = "ok" /\ dir.failed.st = "ok" /\ dir.failed.stage = JOB_STAGE_TRANSCRIPTION)
  /\ ~(dir.summary.st = "ok" /\ dir.failed.st = "ok" /\ dir.failed.stage = JOB_STAGE_SUMMARY)

\* C4 (amended): the marker is always the last write.  No artifact file is
\* created or changed while a failure marker is present, and a run that
\* returns normally leaves its complete artifact and no marker.
C4_MarkerIsLastWrite ==
  [][ /\ dir.failed.st # "absent" => Artifacts(dir') = Artifacts(dir)
      /\ (task' # "idle" /\ pc' = "returned")
           => (dir'.failed.st = "absent" /\ ArtifactOf(task', dir') = CompleteFile(run')) ]_vars

\* C4 witness: transcript_segments.json and a marker of stage transcription
\* are both present, and the worker is running a later stage run over them.
C4_Witness ==
  /\ dir.transcript.st = "ok" /\ dir.failed.st = "ok"
  /\ dir.failed.stage = JOB_STAGE_TRANSCRIPTION
  /\ task = "transcribe" /\ pc = "clear" /\ dir.transcript.by < run

\* C5: with no stage re-delivered, once the reader has answered COMPLETED no
\* later read answers FAILED, PROCESSING or PENDING.
C5_CompletedIsTerminal ==
  [][ (lastRead.status = "completed" /\ redelivered' = 0)
        => lastRead'.status \notin {"failed", "processing", "pending"} ]_vars

\* C6: every job whose Ingest item was enqueued eventually is in a state in
\* which the reader answers COMPLETED or FAILED.
IngestEnqueued == "ingest" \in delivered \/ \E i \in 1..Len(queue) : queue[i] = "ingest"
ReaderTerminal == dir.exists /\ _load_job_summary(dir).status \in {"completed", "failed"}
C6_EveryJobTerminates == ([]~IngestEnqueued) \/ <>ReaderTerminal

\* C7: the status and stage_index the reader answers after a re-run on a
\* directory with leftovers equal those after the same run on a directory
\* holding only the stage's inputs.
C7_RerunSameStatus ==
  rr.phase = "done" =>
     /\ rr.dirty.status = rr.clean.status
     /\ rr.dirty.stage_index = rr.clean.stage_index

C9_ChunksReportStageTwo ==
  (dir.exists /\ dir.chunks # "none" /\ dir.transcript.st = "absent"
     /\ dir.summary.st = "absent" /\ dir.failed.st = "absent")
    => (_load_job_summary(dir).stage_index = 2
        /\ _load_job_summary(dir).status = "processing")

\* C10: without a failure marker the stage_key names the stage evidenced by
\* the highest artifact present.
EvidencedStage(d) ==
  IF d.summary.st # "absent" THEN JOB_STAGE_SUMMARY
  ELSE IF d.transcript.st # "absent" THEN JOB_STAGE_TRANSCRIPTION
  ELSE IF d.chunks # "none" THEN JOB_STAGE_CHUNKING
  ELSE JOB_STAGE_UPLOAD
C10_StageKeyNamesEvidence ==
  (dir.exists /\ dir.source # "none" /\ dir.failed.st = "absent"
     /\ _load_job_summary(dir).status # "error")
    => _load_job_summary(dir).stage_key = EvidencedStage(dir)

\* C11: in every job summary the reader returns, stage_index lies in 1..4,
\* progress equals stage_index / 4 (progress is held in thousandths) and
\* can_delete is true exactly when the status is COMPLETED.
C11_SummaryFields ==
  lastRead.status \notin {"none", "error"} =>
     /\ lastRead.stage_index \in 1.._STAGE_COUNT
     /\ lastRead.progress * _STAGE_COUNT = 1000 * lastRead.stage_index
     /\ lastRead.can_delete <=> lastRead.status = "completed"

\* C11 witness: a FAILED job that holds summary_items.json was read and
\* cannot be deleted.
C11_Witness ==
  /\ lastRead.status = "failed" /\ dir.summary.st = "ok" /\ ~lastRead.can_delete
  /\ lastRead.progress = 750

\* C12: a failure record with an unknown stage never makes the reader raise
\* (the read raises only when it also raises with a known stage recorded),
\* and the job is answered FAILED with stage_index 1 and the recorded stage
\* surfaced as it is.
C12_UnknownStageSurfaced ==
  (lastRead # NoRead /\ dir.failed.st = "ok" /\ ~KnownStage(dir.failed.stage)) =>
     /\ lastRead.status = "error" <=>
          _load_job_summary([dir EXCEPT !.failed.stage = JOB_STAGE_UPLOAD]).status = "error"
     /\ lastRead.status # "error" =>
          /\ lastRead.status = "failed"
          /\ lastRead.stage_index = 1
          /\ lastRead.stage_key = dir.failed.stage
          /\ lastRead.failure = dir.failed.stage

\* C12 witness: a marker of stage rq_worker was read and answered FAILED.
C12_Witness ==
  lastRead.status = "failed" /\ lastRead.stage_key = "rq_worker" /\ lastRead.stage_index = 1

\* C13: whatever artifact file a read finds absent, partially written or
\* complete while a stage is writing, the reader returns a job summary.
C13_ReaderToleratesPartial == lastRead.status # "error"

\* C14: a status read leaves the job directory as it found it.
C14_ReaderNeverWrites == [][ lastRead' # lastRead => dir' = dir ]_vars

\* C14 witness: the reader has answered FAILED for a directory that still
\* holds the marker it read.
C14_Witness ==
  lastRead.status = "failed" /\ dir.failed.st = "ok" /\ task = "idle"

\* the hook has run for a work item that names the job
Hooked == rr.phase = "hooked" /\ rr.job.kwargs = "job_id"

\* C15: when the hook runs over a marker written by the task, the marker
\* afterwards is the marker before; the hook changes the marker only when
\* none was present.
C15_HookKeepsTaskMarker ==
  Hooked =>
     /\ rr.before.failed \in TaskMarkers =>
          (dir.failed.stage = rr.before.failed.stage /\ dir.failed.st = "ok")
     /\ dir.failed # rr.before.failed => rr.before.failed = NoMarker

\* C15 witness: the hook ran for a failed transcribe item over a marker of
\* stage chunking and left that stage.
C15_Witness ==
  /\ Hooked /\ rr.before.failed = Marker(JOB_STAGE_CHUNKING, FALSE)
  /\ rr.job.func_name = FuncName("transcribe")
  /\ dir.failed.stage = JOB_STAGE_CHUNKING

\* C16: when the hook runs over a marker written by the task, the marker's
\* details afterwards hold the broker job id and the traceback.
C16_HookAppendsDetails ==
  (Hooked /\ rr.before.failed \in TaskMarkers) => dir.failed.rq

\* the stage the function-name table gives for the last component of a name
StageForName(fn) ==
  CASE fn = FuncName("ingest") -> JOB_STAGE_UPLOAD
    [] fn = FuncName("transcribe") -> JOB_STAGE_TRANSCRIPTION
    [] fn = FuncName("summarize") -> JOB_STAGE_SUMMARY
    [] fn = <<"meetingai_backend", "tasks", "summarize", "summarize_transcript_for_job">>
         -> JOB_STAGE_SUMMARY
    [] OTHER -> JOB_STAGE_UPLOAD

\* C17: when the hook runs for an existing directory without a marker, it
\* writes a marker whose stage is inferred from the function name and whose
\* details hold the error type, traceback and broker job id.
C17_HookInfersStage ==
  (Hooked /\ rr.before.exists /\ rr.before.failed = NoMarker) =>
     /\ ~rr.raised
     /\ dir.failed = Marker(StageForName(rr.job.func_name), TRUE)
     /\ dir = [rr.before EXCEPT !.failed = dir.failed]

\* C17 witness: the hook wrote a marker of stage summary for a failed
\* summarize_transcript_for_job item.
C17_Witness ==
  /\ Hooked /\ rr.before.failed = NoMarker
  /\ rr.job.func_name = <<"meetingai_backend", "tasks", "summarize", "summarize_transcript_for_job">>
  /\ dir.failed = Marker(JOB_STAGE_SUMMARY, TRUE)

\* C18: when the hook runs for a work item without keyword arguments, or for
\* a job directory that does not exist, it returns without raising and
\* nothing is created.
C18_HookSkipsQuietly ==
  (rr.phase = "hooked" /\ (rr.job.kwargs \in {"None", "empty"} \/ ~rr.before.exists)) =>
     (~rr.raised /\ dir = rr.before)

\* the cases in which the claims allow a further attempt
RetryAllowedAfter(resp) ==
  \/ resp.kind = "transport"
  \/ resp.kind = "status" /\ resp.has_response
       /\ resp.code \in {408, 409, 429, 500, 502, 503, 504}

\* a request is issued in this step
RequestIssued == rr'.requests = rr.requests + 1 \/ (rr'.chunk # rr.chunk)

\* C19: the requests issued for one chunk, or for one summary, never exceed
\* max_attempts, and a request after the first is issued only when the
\* request before it raised a transport error or returned a retriable status.
C19_AttemptsBounded ==
  [][ /\ rr'.requests <= rr'.max_attempts
      /\ (rr'.requests = rr.requests + 1 /\ rr.requests >= 1) => RetryAllowedAfter(rr.last)
    ]_vars

\* C19 witness: the last allowed attempt for a chunk was made after a
\* transport error and a 503.
C19_Witness ==
  /\ rr.phase = "retry" /\ rr.max_attempts = MaxAttempts /\ rr.requests = MaxAttempts
  /\ rr.sleeps >= 2 /\ rr.last.kind = "status" /\ rr.last.code = 503
  /\ rr.result = "raised"

\* C20: a request answered with a status outside the retriable set, or with
\* an exception that is not a transport error, ends the call in that very
\* step: no backoff sleep, the error carries that status (none for an
\* exception without a status), and no request follows.
C20_NonRetriableEndsCall ==
  [][ /\ (RequestIssued /\ rr'.last.kind = "status" /\ rr'.last.has_response
            /\ rr'.last.code \notin {408, 409, 429, 500, 502, 503, 504})
           => (rr'.result = "raised" /\ rr'.sleeps = rr.sleeps
               /\ rr'.status_code = rr'.last.code)
      /\ (RequestIssued /\ rr'.last.kind = "other")
           => (rr'.result = "raised" /\ rr'.sleeps = rr.sleeps /\ rr'.status_code = 0)
      /\ rr.result = "raised" => rr' = rr
    ]_vars

\* C20 witness: a 404 on the second attempt ended the call with status 404
\* after a single backoff sleep.
C20_Witness ==
  /\ rr.phase = "retry" /\ rr.result = "raised" /\ rr.status_code = 404
  /\ rr.requests = 2 /\ rr.sleeps = 1 /\ rr.max_attempts = MaxAttempts

\* the delay the retry policy prescribes after attempt k: base * 2^(k-1),
\* raised to the Retry-After of the response (numeric seconds, or the time
\* until an HTTP-date), then capped (a cap of 0 is no cap)
ExpectedDelay(base, k, resp, cap) ==
  LET ra == resp.retry_after
      wait == IF resp.has_response /\ ra.kind \in {"seconds", "date"} /\ ra.value > 0
              THEN ra.value ELSE 0
      raised == Max(base * Pow2(k - 1), wait)
  IN IF cap # 0 THEN Min(raised, cap) ELSE raised

\* C21: in both callers every backoff sleep after attempt k equals
\* base * 2^(k-1), raised to Retry-After (seconds or HTTP-date) when the
\* response carries one, then capped at max_retry_backoff_seconds; no sleep
\* exceeds the cap.
C21_BackoffDelay ==
  [][ rr'.sleeps = rr.sleeps + 1 =>
        LET d == rr'.delays[Len(rr'.delays)] IN
          /\ d = ExpectedDelay(rr'.base, rr'.attempt, rr'.last, rr'.cap)
          /\ rr'.cap # 0 => d <= rr'.cap
    ]_vars

\* the call of the scenario: max_attempts 4, base 1, cap 10, three 429 with
\* Retry-After: 2, then a payload on the 4th attempt
Scenario429 ==
  /\ rr.phase = "retry" /\ rr.service = Responses429
  /\ rr.max_attempts = 4 /\ rr.base = 1 /\ rr.cap = 10
  /\ rr.requests = 4 /\ rr.last = Payload

\* C22 (as stated): the scenario produces exactly the backoff sleeps
\* [2, 2, 2] and the call succeeds on the 4th attempt.
C22_SleepsTwoTwoTwo ==
  Scenario429 => (rr.result = "done" /\ rr.delays = <<2, 2, 2>>)

\* C22 (amended): the scenario produces exactly the backoff sleeps
\* [2, 2, 4] (the third backoff, 1 * 2^2, exceeds the Retry-After of 2) and
\* the call succeeds on the 4th attempt.
C22_SleepsTwoTwoFour ==
  Scenario429 => (rr.result = "done" /\ rr.delays = <<2, 2, 4>>)

\* C22 witness: the transcription call of the scenario has succeeded on its
\* 4th attempt.
C22_Witness ==
  Scenario429 /\ rr.client = "transcription" /\ rr.result = "done" /\ rr.sleeps = 3

\* C23: when all max_attempts attempts failed with a retriable status or a
\* transport error, the call fails with the client's error type, carrying
\* the status of the last response when there was one, raised from the last
\* underlying error.
C23_ExhaustionReportsLastError ==
  (rr.phase = "retry" /\ rr.result = "raised" /\ rr.requests = rr.max_attempts
     /\ RetryAllowedAfter(rr.last)) =>
     /\ rr.error_type = ErrorOf(rr.client)
     /\ rr.status_code = (IF rr.last.kind = "status" THEN rr.last.code ELSE 0)
     /\ rr.cause = rr.last

\* C23 witness: a call with max_attempts 2 failed with a transport error on
\* both attempts.
C23_Witness ==
  /\ rr.phase = "retry" /\ rr.result = "raised" /\ rr.max_attempts = 2 /\ rr.requests = 2
  /\ rr.sleeps = 1 /\ rr.last.kind = "transport" /\ rr.cause.kind = "transport"

\* C24: with requests_per_minute = r, the starts of any two consecutive
\* requests of one transcribe_audio_chunks call, retries or successive
\* chunks alike, are at least 60/r seconds apart.
C24_TranscriptionPaced ==
  (rr.phase = "retry" /\ rr.client = "transcription" /\ rr.requests_per_minute > 0
     /\ rr.gap # -1) => rr.gap * rr.requests_per_minute >= 60

\* C24 witness: the first request for the second chunk started exactly 3
\* seconds after the request for the first chunk, under 20 requests a minute.
C24_Witness ==
  /\ rr.phase = "retry" /\ rr.client = "transcription" /\ rr.requests_per_minute = 20
  /\ rr.chunk = 2 /\ rr.requests = 1 /\ rr.gap = 3 /\ rr.sleeps = 0

\* C25: with requests_per_minute = r, the starts of any two consecutive
\* requests of one generate_meeting_summary call are at least 60/r
\* seconds apart.
C25_SummaryPaced ==
  (rr.phase = "retry" /\ rr.client = "summarization" /\ rr.requests_per_minute > 0
     /\ rr.gap # -1) => rr.gap * rr.requests_per_minute >= 60

\* C26: when transcribe_audio_chunks returns normally, there is one result
\* per input chunk and the i-th result carries the asset_id, start_ms and
\* end_ms of the i-th input chunk.
C26_ResultsInInputOrder ==
  (rr.phase = "retry" /\ rr.client = "transcription" /\ rr.result = "done") =>
     /\ Len(rr.results) = Len(rr.assets)
     /\ \A i \in 1..Len(rr.assets) :
          /\ rr.results[i].asset_id = rr.assets[i].asset_id
          /\ rr.results[i].start_ms = rr.assets[i].start_ms
          /\ rr.results[i].end_ms = rr.assets[i].end_ms

\* C26 witness: a call over two chunks given out of time order returned
\* after at least one retry.
C26_Witness ==
  /\ rr.phase = "retry" /\ rr.client = "transcription" /\ rr.result = "done"
  /\ Len(rr.assets) = 2 /\ rr.assets[1].asset_id = "c" /\ rr.sleeps >= 1

\* C27: every failure of transcribe_audio_chunks is a TranscriptionError
\* carrying the asset_id of the chunk being processed.
C27_FailuresAreTranscriptionErrors ==
  (rr.phase = "retry" /\ rr.client = "transcription" /\ rr.result = "raised") =>
     /\ rr.error_type = "TranscriptionError"
     /\ rr.error_asset = rr.assets[rr.chunk].asset_id

\* C28: a chunk whose file is missing fails the call in the step that
\* reaches it, with no request for it and no sleep, and a call that has
\* failed issues no request for any later chunk.
C28_MissingFileFailsFast ==
  [][ /\ (rr.client = "transcription" /\ rr.result = "running" /\ rr.attempt = 0
            /\ ~rr.assets[rr.chunk].exists)
           => (rr'.result = "raised" /\ rr'.requests = 0 /\ rr'.sleeps = rr.sleeps
               /\ rr'.chunk = rr.chunk /\ rr'.start = rr.start)
      /\ (rr.result = "raised" /\ rr.chunk < rr.chunks)
           => (rr'.chunk = rr.chunk /\ rr'.requests = rr.requests)
    ]_vars

\* C28 witness: the file of the first of two chunks was missing and the call
\* failed without a request.
C28_Witness ==
  /\ rr.phase = "retry" /\ rr.result = "raised" /\ rr.error_type = "FileNotFoundError"
  /\ rr.chunk = 1 /\ rr.chunks = 2 /\ rr.requests = 0 /\ rr.start = -1

\* the chunk a segment was cut from
SourceChunk(segment) ==
  CHOOSE c \in {rr.chunk_results[i] : i \in 1..Len(rr.chunk_results)} :
    c.asset_id = segment.source_asset_id

\* C29: for chunk windows inside [0, master.duration_ms], the merged
\* segments have order 0..n-1 in list position order, and each satisfies
\* end_ms > start_ms, start_ms >= 0, end_ms <= master.duration_ms and lies
\* inside the window of its source chunk.
C29_SegmentsDenseAndBounded ==
  (rr.phase = "merge" /\ rr.result = "returned") =>
    \A i \in 1..Len(rr.segments) :
      LET s == rr.segments[i] IN
        /\ s.order = i - 1
        /\ s.end_ms > s.start_ms
        /\ s.start_ms >= 0
        /\ s.end_ms <= MasterDuration
        /\ SourceChunk(s).start_ms <= s.start_ms
        /\ s.end_ms <= SourceChunk(s).end_ms

\* C29 witness: a merge of two chunks returned three segments, one of them
\* cut from a raw entry that overhung its chunk window on both sides.
C29_Witness ==
  /\ rr.phase = "merge" /\ rr.result = "returned" /\ Len(rr.segments) = 3
  /\ Len(rr.chunk_results) = 2
  /\ \E i \in 1..3 : /\ rr.segments[i].text.body = "y"
                     /\ rr.segments[i].source_asset_id = "b"
                     /\ rr.segments[i].start_ms = 2 /\ rr.segments[i].end_ms = 4

\* C30: for any input order of the chunk results, the merged segments are
\* listed by ascending (start_ms, asset_id) of their source chunk, and
\* segments of one chunk keep the order they have in the model's response.
C30_SegmentsInChunkOrder ==
  (rr.phase = "merge" /\ rr.result = "returned") =>
    \A i, j \in 1..Len(rr.segments) :
      i < j =>
        LET ci == SourceChunk(rr.segments[i])
            cj == SourceChunk(rr.segments[j])
        IN \/ ci.start_ms < cj.start_ms
           \/ ci.start_ms = cj.start_ms /\ IdRank(ci.asset_id) < IdRank(cj.asset_id)
           \/ ci = cj /\ rr.segments[i].pos < rr.segments[j].pos

\* C30 witness: chunks "c" and "a", which start together, were given in
\* that order; the two segments of "a" come first, in response order.
C30_Witness ==
  /\ rr.phase = "merge" /\ rr.result = "returned" /\ Len(rr.chunk_results) = 2
  /\ rr.chunk_results[1].asset_id = "c" /\ rr.chunk_results[2].asset_id = "a"
  /\ Len(rr.segments) = 3
  /\ rr.segments[1].source_asset_id = "a" /\ rr.segments[2].source_asset_id = "a"
  /\ rr.segments[1].pos < rr.segments[2].pos
  /\ rr.segments[3].source_asset_id = "c"

\* the language the model's response gives for the entry a segment was cut from
OwnLanguage(segment) == SourceChunk(segment).response.segments[segment.pos].language

ChunksWithLanguage ==
  {rr.chunk_results[i] : i \in {j \in 1..Len(rr.chunk_results) :
                                  rr.chunk_results[j].language # ""}}

\* the first chunk in sort order that has a detected language
FirstChunkWithLanguage ==
  CHOOSE c \in ChunksWithLanguage : \A o \in ChunksWithLanguage : ChunkKeyLeq(c, o)

\* C31: when some chunk has a detected language, every merged segment with
\* no language of its own and whose chunk has none carries the language of
\* the first chunk in sort order that has one, and every merged segment has
\* a non-empty language, also those of chunks sorted before that chunk.
C31_GlobalLanguageBackfilled ==
  (rr.phase = "merge" /\ rr.result = "returned" /\ ChunksWithLanguage # {}) =>
    \A i \in 1..Len(rr.segments) :
      LET s == rr.segments[i] IN
        /\ s.language # ""
        /\ (OwnLanguage(s) = "" /\ SourceChunk(s).language = "")
             => s.language = FirstChunkWithLanguage.language

\* C31 witness: chunks "b" (ja), "c" (fr) and "a" (none) were given in that
\* order; the first segment, cut from "a" and sorted before both, has no
\* language of its own and carries "fr".
C31_Witness ==
  /\ rr.phase = "merge" /\ rr.result = "returned" /\ Len(rr.chunk_results) = 3
  /\ rr.chunk_results[1].asset_id = "b" /\ rr.chunk_results[2].asset_id = "c"
  /\ rr.segments[1].source_asset_id = "a" /\ OwnLanguage(rr.segments[1]) = ""
  /\ rr.segments[1].language = "fr"

\* C32: a merge that returns has emitted at least one segment of every
\* chunk; a chunk none of whose entries is emitted (segments missing or
\* empty, or every entry rejected for its text, its timestamps or an empty
\* clamped span) makes the whole merge fail.
C32_EveryChunkContributes ==
  (rr.phase = "merge" /\ rr.result = "returned") =>
    \A k \in 1..Len(rr.chunk_results) :
      \E i \in 1..Len(rr.segments) :
        rr.segments[i].source_asset_id = rr.chunk_results[k].asset_id

\* a section or action entry lies fully outside the transcript range
FullyOutside(entry) ==
  LET start == _extract_time_value(entry.start)
      end == _extract_time_value(entry.end)
  IN /\ ~start.none /\ ~end.none
     /\ \/ start.ms >= transcript_end_ms(rr.segments)
        \/ end.ms <= transcript_start_ms(rr.segments)

\* C33: every summary item returned lies in the transcript range with
\* segment_start_ms < segment_end_ms; a section fully outside the range is
\* dropped; the items keep the order of the response and have order 0..m-1.
C33_SummaryItemsClamped ==
  (rr.phase = "summary" /\ rr.result = "returned") =>
    /\ \A i \in 1..Len(rr.summary_items) :
         LET item == rr.summary_items[i] IN
           /\ item.order = i - 1
           /\ transcript_start_ms(rr.segments) <= item.segment_start_ms
           /\ item.segment_start_ms < item.segment_end_ms
           /\ item.segment_end_ms <= transcript_end_ms(rr.segments)
           /\ ~FullyOutside(rr.payload.summary_sections.entries[item.pos])
    /\ \A i, j \in 1..Len(rr.summary_items) :
         i < j => rr.summary_items[i].pos < rr.summary_items[j].pos

\* C33 witness: of a section fully outside the transcript and one
\* overhanging its end, only the second was returned, cut at the end of the
\* transcript, with order 0.
C33_Witness ==
  /\ rr.phase = "summary" /\ rr.result = "returned"
  /\ Len(rr.payload.summary_sections.entries) = 2
  /\ FullyOutside(rr.payload.summary_sections.entries[1])
  /\ Len(rr.summary_items) = 1
  /\ rr.summary_items[1].pos = 2 /\ rr.summary_items[1].order = 0
  /\ rr.summary_items[1].segment_end_ms = transcript_end_ms(rr.segments)
  /\ rr.summary_items[1].segment_end_ms = 3000

InRange(bound) ==
  bound.none \/ (transcript_start_ms(rr.segments) <= bound.ms
                 /\ bound.ms <= transcript_end_ms(rr.segments))

\* C34: every bound an accepted action item has lies in the transcript
\* range, also when it has only one; and an action item with a description
\* is dropped only when it has both bounds and end <= start after clamping.
C34_ActionItemsClamped ==
  (rr.phase = "summary" /\ rr.result = "returned") =>
    /\ \A i \in 1..Len(rr.action_items) :
         /\ InRange(rr.action_items[i].segment_start_ms)
         /\ InRange(rr.action_items[i].segment_end_ms)
    /\ \A k \in 1..Len(rr.payload.action_items.entries) :
         LET entry == rr.payload.action_items.entries[k] IN
           (/\ entry.is_mapping /\ entry.text.body # ""
            /\ \A i \in 1..Len(rr.action_items) : rr.action_items[i].pos # k)
           => (~_extract_time_value(entry.start).none
               /\ ~_extract_time_value(entry.end).none)

\* the length of the union of the ranges of the summary items
UnionLength ==
  Tick * Cardinality(
    {t \in (transcript_start_ms(rr.segments) \div Tick)
           ..(transcript_end_ms(rr.segments) \div Tick) :
       \E i \in 1..Len(rr.summary_items) :
         /\ rr.summary_items[i].segment_start_ms <= t * Tick
         /\ (t + 1) * Tick <= rr.summary_items[i].segment_end_ms})

\* C35: for a transcript in any list order, the covered length behind
\* coverage_ratio is the length of the union of the summary ranges and the
\* denominator is max_end - min_start; both ratios lie in [0, 1] and
\* action_item_count is the number of accepted action items.
C35_CoverageIsUnionLength ==
  (rr.phase = "summary" /\ rr.result = "returned") =>
    /\ rr.quality.covered = UnionLength
    /\ rr.quality.total_duration =
         transcript_end_ms(rr.segments) - transcript_start_ms(rr.segments)
    /\ rr.quality.coverage_ratio \in 0..1000
    /\ rr.quality.referenced_segments_ratio \in 0..1000
    /\ rr.quality.action_item_count = Len(rr.action_items)

\* ceil(duration / chunk_duration)
ChunkCount ==
  (rr.total_duration + Seconds(rr.chunk_duration_seconds) - 1)
    \div Seconds(rr.chunk_duration_seconds)

\* C36: the manifest has chunks of order 0..N-1, the first starting at 0,
\* each starting where the previous one ends, each with end_ms > start_ms;
\* the master's duration_ms is the sum of the chunk durations, its end_ms
\* the end of the last chunk, its asset_id the parent of every chunk; and
\* N = ceil(duration / chunk_duration).
C36_ChunksTileTheMaster ==
  (rr.phase = "chunking" /\ rr.at = "written") =>
    LET master == rr.manifest[1]
        chunks == Tail(rr.manifest)
    IN /\ Len(chunks) = ChunkCount
       /\ chunks[1].start_ms = 0
       /\ master.duration_ms = SumDurations(chunks)
       /\ master.end_ms = chunks[Len(chunks)].end_ms
       /\ \A i \in 1..Len(chunks) :
            /\ chunks[i].order = i - 1
            /\ chunks[i].end_ms > chunks[i].start_ms
            /\ chunks[i].parent_asset_id = master.asset_id
            /\ i > 1 => chunks[i].start_ms = chunks[i - 1].end_ms

\* the artifacts the stages before Transcribe and before Summarize wrote
BeforeTranscribe(d) == <<d.source, d.chunks, d.assets>>
BeforeSummarize(d) == <<d.source, d.chunks, d.assets, d.transcript>>

\* C37: no step of a Transcribe run, failing or not, and no failure hook that
\* follows it modifies media_assets.json or the chunk files; no step of a
\* Summarize run modifies media_assets.json or transcript_segments.json.
C37_FailureKeepsEarlierArtifacts ==
  [][/\ task = "transcribe" => BeforeTranscribe(dir') = BeforeTranscribe(dir)
     /\ task = "summarize" => BeforeSummarize(dir') = BeforeSummarize(dir)]_vars

\* a Summarize run has failed after writing part of its own output while
\* the manifest and the transcript are complete
C37_Witness ==
  /\ task = "summarize" /\ pc = "raised"
  /\ dir.failed.st = "ok" /\ dir.failed.stage = JOB_STAGE_SUMMARY
  /\ dir.summary.st = "partial"
  /\ dir.assets.st = "ok" /\ dir.transcript.st = "ok"

C39_SummarizeFindsSegments ==
  (rr.phase = "merge" /\ "summarize" \in DOMAIN rr /\ rr.summarize # "none") =>
    /\ Len(rr.transcript.segments) >= 1
    /\ rr.summarize # "raised"

\* no stage has failed and nothing was delivered twice
CleanRun == redelivered = 0 /\ dir.failed.st = "absent" /\ pc # "raised"

\* the reader answered (no HTTP 500) with a stage_index of at least k
ReportedAtLeast(k) == lastRead.status \notin {"none", "error"} /\ lastRead.stage_index >= k

\* the three stages have run and returned
PipelineDone ==
  /\ CleanRun /\ task = "idle" /\ queue = <<>>
  /\ delivered = {"ingest", "transcribe", "summarize"}

\* C40: in a run without failure and without re-delivery, once the reader
\* has reported a stage_index of k every later answer reports at least k,
\* and when the three stages have returned the reader reports 4.
C40_StageIndexNeverDecreases ==
  /\ \A k \in 1.._STAGE_COUNT :
       []((CleanRun /\ ReportedAtLeast(k)) =>
            []((CleanRun /\ lastRead.status \notin {"none", "error"}) =>
                 lastRead.stage_index >= k))
  /\ [](PipelineDone => list_jobs(dir).summary.stage_index = _STAGE_COUNT)

\* the reader reports 4 after the three stages returned
C40_Witness ==
  /\ PipelineDone
  /\ lastRead.status = "completed" /\ lastRead.stage_index = _STAGE_COUNT

====
